---- MODULE Spec2Model ----
(***************************************************************************)
(* dbleaf, src-tauri/src/ssh_tunnel.rs: one SSH tunnel, statement by       *)
(* statement (specifications Spec and FairSpec), and                       *)
(* src-tauri/src/db/connection.rs: the ConnectionManager and the tunnels it *)
(* creates, each tunnel at the grain of its worker's loop (MgrSpec).        *)
(*                                                                         *)
(* Threads: the caller of SshTunnel::establish (epc), the forwarding        *)
(* worker spawned by it (wpc), and the owner calling SshTunnel::shutdown    *)
(* (spc).  The environment is the local TCP clients of the loopback port,   *)
(* the echo service behind the remote channel, and the SSH transport.       *)
(***************************************************************************)
EXTENDS Naturals, Sequences, FiniteSets

(* ---- bounds of the model ---------------------------------------------- *)
\* local connections that ever arrive at the tunnel's port
MaxConns == 2
\* bytes each local client wants to send (the bytes are 1..MsgLen, all distinct)
MsgLen == 3
\* bytes the local socket takes from the worker while the client does not read
LocalCap == 2
\* tunnels ever established through the manager and test_connection together
MaxTunnels == 2
\* connection ids known to the manager
MaxIds == 2
\* loopback ports the operating system can hand out for 127.0.0.1:0
MaxPorts == 2

(* ---- program constants ------------------------------------------------- *)
\* local_buf / channel_buf, [0u8; 8192] in the source, scaled down
BufSize == 2

Conns == 1..MaxConns
Tunnels == 1..MaxTunnels
Ids == 1..MaxIds
Ports == 1..MaxPorts
Msg == [i \in 1..MsgLen |-> i]

Methods == {"password", "key", "key_passphrase"}
AllMethods == Methods \cup {"other"}
HostKinds == {"ip", "name"}

VARIABLES
  config,       \* the ConnectionConfig given to establish: [ssh_host, ssh_auth_method]
  epc,          \* establish: the statement the caller is at
  result,       \* establish: "none" while running, "Ok", or the error it returned
  tcp,          \* the TcpStream to the jump host: "none", "open", "down", "closed"
  session,      \* the ssh2 Session: "none", "new", "handshaken", "dropped"
  authed,       \* session.authenticated()
  blocking,     \* the session's blocking mode (libssh2 sessions start blocking)
  listener,     \* the loopback TcpListener: "none", "bound", "released"
  lnonblock,    \* the listener is in non-blocking mode
  rxAlive,      \* shutdown_rx still exists (dropped when the worker ends)
  sig,          \* messages in the shutdown channel
  spc,          \* shutdown: "idle" (tunnel held, not called), "sent", "returned"
  wpc,          \* worker: "unspawned", the statement it is at, "closed", "done", "panicked"
  cstate,       \* each local connection: "new", "pending", "active", "over", "refused"
  backlog,      \* the listener's accept queue, in arrival order
  cur,          \* the connection whose socket the worker holds (0: none)
  nLocal,       \* accepted local sockets the worker holds open
  nChan,        \* remote channels the worker holds open
  localNonblock,\* the accepted socket is in non-blocking mode
  cli,          \* the current local client: "open" or "closed"
  remote,       \* the remote end of the channel: "open" or "eof"
  cliSent,      \* bytes of Msg the current client has written
  cliRecv,      \* bytes the current client has read back
  l2w,          \* bytes in the local socket, client -> worker
  w2l,          \* bytes in the local socket, worker -> client
  c2r,          \* bytes written to the channel, not yet taken by the remote
  r2c,          \* bytes sent by the remote, not yet read from the channel
  local_buf,    \* the chunk read from the local socket, to be written to the channel
  channel_buf,  \* the chunk read from the channel, to be written to the local socket
  endCause,     \* why the copy loop of the current episode ended ("none": it has not)
  eofSent,      \* send_eof of the last episode reached the remote
  chan_written, \* bytes the worker has written to the channel in this episode
  chan_read,    \* bytes the worker has read from the channel in this episode
  local_written,\* bytes the worker has written to the local socket in this episode
  chan_call,    \* the last call on the session's channel in this episode and the
                \* session's blocking mode when it was made: <<>> or <<call, mode>>
  \* -- the ConnectionManager and its tunnels (MgrSpec) --
  connections,  \* ConnectionManager.connections: id -> <<>> (no client) or <<t>>, the client
                \* connected through tunnel t (<<0>>: connected directly)
  ssh_tunnels,  \* ConnectionManager.ssh_tunnels: id -> the tunnel stored for it (0: none)
  t_state,      \* each SshTunnel value: "unused", "bound" (establish between bind and
                \* spawn), "held", "dropped" (dropped without shutdown), "sent"
                \* (shutdown has sent the signal), "joined" (shutdown has returned)
  t_owner,      \* the connection id a tunnel was established for (0: test_connection)
  local_port,   \* SshTunnel.local_port (0: not bound yet)
  t_bound,      \* the tunnel's TcpListener exists
  t_wpc,        \* the tunnel's worker: "unspawned", "poll", "accept", "forwarding",
                \* "closed", "done", "panicked"
  t_sig,        \* messages in the tunnel's shutdown channel
  sends,        \* shutdown_tx.send calls made on the tunnel
  joins,        \* forward_handle joins made on the tunnel
  mpc,          \* the manager operation holding the lock: "idle" or its statement
  mid,          \* config.id / connection_id of the current (or last) manager operation
  mssh,         \* config.use_ssh_tunnel of the current (or last) connect
  mt,           \* the tunnel the current (or last) manager operation works on (0: none)
  mret,         \* what the last manager operation returned
  tpc,          \* test_connection: "idle" or its statement
  tt,           \* the temporary tunnel of test_connection (0: none)
  bpc,          \* the backup_database / restore_database command: "idle", "spawned"
                \* (port looked up, blocking task spawned), "ran" (utility started)
  tunnel_port,  \* the command's tunnel_port: get_tunnel_port's answer (0: None)
  utility,      \* the external utility the command ran and the -h and -p it was
                \* given: <<>> or <<program, host, port>>
  chat          \* the clone of a client that a running ai_chat holds: <<>> (no
                \* ai_chat), <<0>> (a direct client) or <<t>> (connected through t)

estVars  == <<config, epc, result, tcp, session, authed, listener, lnonblock>>
sigVars  == <<rxAlive, sig, spc>>
connVars == <<cstate, backlog, cur, nLocal, nChan, localNonblock>>
dataVars == <<cli, remote, cliSent, cliRecv, l2w, w2l, c2r, r2c, local_buf, channel_buf>>
tunnelVars == <<config, epc, result, tcp, session, authed, blocking, listener, lnonblock,
                rxAlive, sig, spc, wpc, cstate, backlog, cur, nLocal, nChan, localNonblock,
                cli, remote, cliSent, cliRecv, l2w, w2l, c2r, r2c, local_buf, channel_buf,
                endCause, eofSent, chan_written, chan_read, local_written, chan_call>>
histVars == <<chan_written, chan_read, local_written, chan_call>>
regVars == <<connections, ssh_tunnels>>
tunVars == <<t_state, t_owner, local_port, t_bound, t_wpc, t_sig, sends, joins>>
opVars == <<mpc, mid, mssh, mt, mret>>
testVars == <<tpc, tt>>
bkVars == <<bpc, tunnel_port, utility>>
chatVars == <<chat>>
mgrVars == <<regVars, tunVars, opVars, testVars, bkVars, chatVars>>
vars == <<tunnelVars, mgrVars>>

(* ---- helpers ----------------------------------------------------------- *)
Min(a, b) == IF a < b THEN a ELSE b
Take(s, n) == SubSeq(s, 1, Min(n, Len(s)))
Drop(s, n) == SubSeq(s, Min(n, Len(s)) + 1, Len(s))

\* ssh_addr.parse::<SocketAddr>() accepts "ip:port" literals only; it resolves no name
ParseSocketAddr(host) == host = "ip"

\* ConnectionManager::new (connection.rs l.17-22): both maps empty, no tunnel yet
MgrStart ==
  /\ connections = [i \in Ids |-> <<>>]
  /\ ssh_tunnels = [i \in Ids |-> 0]
  /\ t_state = [t \in Tunnels |-> "unused"]
  /\ t_owner = [t \in Tunnels |-> 0]
  /\ local_port = [t \in Tunnels |-> 0]
  /\ t_bound = [t \in Tunnels |-> FALSE]
  /\ t_wpc = [t \in Tunnels |-> "unspawned"]
  /\ t_sig = [t \in Tunnels |-> 0]
  /\ sends = [t \in Tunnels |-> 0]
  /\ joins = [t \in Tunnels |-> 0]
  /\ mpc = "idle"
  /\ mid = 1
  /\ mssh = FALSE
  /\ mt = 0
  /\ mret = "none"
  /\ tpc = "idle"
  /\ tt = 0
  /\ bpc = "idle"
  /\ tunnel_port = 0
  /\ utility = <<>>
  /\ chat = <<>>

Init ==
  /\ MgrStart
  /\ config \in [ssh_host : HostKinds, ssh_auth_method : AllMethods]
  /\ epc = "parse"
  /\ result = "none"
  /\ tcp = "none"
  /\ session = "none"
  /\ authed = FALSE
  /\ blocking = TRUE
  /\ listener = "none"
  /\ lnonblock = FALSE
  /\ rxAlive = FALSE
  /\ sig = 0
  /\ spc = "idle"
  /\ wpc = "unspawned"
  /\ cstate = [c \in Conns |-> "new"]
  /\ backlog = <<>>
  /\ cur = 0
  /\ nLocal = 0
  /\ nChan = 0
  /\ localNonblock = FALSE
  /\ cli = "open"
  /\ remote = "open"
  /\ cliSent = 0
  /\ cliRecv = <<>>
  /\ l2w = <<>>
  /\ w2l = <<>>
  /\ c2r = <<>>
  /\ r2c = <<>>
  /\ local_buf = <<>>
  /\ channel_buf = <<>>
  /\ endCause = "none"
  /\ eofSent = FALSE
  /\ chan_written = <<>>
  /\ chan_read = <<>>
  /\ local_written = <<>>
  /\ chan_call = <<>>

(***************************************************************************)
(* SshTunnel::establish.  An early return (`?` or `return Err`) drops the   *)
(* locals alive at that point: the TcpStream (owned by the session once     *)
(* set_tcp_stream has run), the Session and the TcpListener.                *)
(***************************************************************************)
EstFail(err) ==
  /\ epc' = "err"
  /\ result' = err
  /\ tcp' = IF tcp \in {"open", "down"} THEN "closed" ELSE tcp
  /\ session' = IF session = "none" THEN "none" ELSE "dropped"
  /\ listener' = IF listener = "bound" THEN "released" ELSE listener
  /\ UNCHANGED <<config, authed, lnonblock>>

EstRest == <<blocking, sigVars, wpc, connVars, dataVars, endCause, eofSent, histVars>>

\* lines 19-23: format!("{}:{}") and parse()
EstParse ==
  /\ epc = "parse"
  /\ IF ParseSocketAddr(config.ssh_host)
       THEN epc' = "connect" /\ UNCHANGED <<config, result, tcp, session, authed, listener, lnonblock>>
       ELSE EstFail("addr")
  /\ UNCHANGED EstRest
  /\ UNCHANGED mgrVars

\* lines 20-27: TcpStream::connect_timeout, set_read_timeout
EstConnect ==
  /\ epc = "connect"
  /\ \/ /\ epc' = "session_new"
        /\ tcp' = "open"
        /\ UNCHANGED <<config, result, session, authed, listener, lnonblock>>
     \/ EstFail("connect")
  /\ UNCHANGED EstRest
  /\ UNCHANGED mgrVars

\* lines 30-32: Session::new, set_tcp_stream
EstSessionNew ==
  /\ epc = "session_new"
  /\ \/ /\ epc' = "handshake"
        /\ session' = "new"
        /\ UNCHANGED <<config, result, tcp, authed, listener, lnonblock>>
     \/ EstFail("session_new")
  /\ UNCHANGED EstRest
  /\ UNCHANGED mgrVars

\* lines 33-35: session.handshake()
EstHandshake ==
  /\ epc = "handshake"
  /\ \/ /\ tcp = "open"
        /\ epc' = "auth"
        /\ session' = "handshaken"
        /\ UNCHANGED <<config, result, tcp, authed, listener, lnonblock>>
     \/ EstFail("handshake")
  /\ UNCHANGED EstRest
  /\ UNCHANGED mgrVars

\* mutant: when the selected method fails, the other methods are tried and the error
\* of the last one tried is reported
EstAuth_FallsBack ==
  /\ epc = "auth"
  /\ IF config.ssh_auth_method \in Methods
       THEN \/ /\ tcp = "open"
               /\ epc' = "authcheck"
               /\ authed' \in BOOLEAN
               /\ UNCHANGED <<config, result, tcp, session, listener, lnonblock>>
            \/ \E m \in Methods : EstFail("auth_" \o m)
       ELSE EstFail("unknown_method")
  /\ UNCHANGED EstRest
  /\ UNCHANGED mgrVars

\* lines 38-67: the match on config.ssh_auth_method; the userauth call may return Ok
\* with the session authenticated or (partial authentication) not yet authenticated
EstAuth ==
  /\ epc = "auth"
  /\ IF config.ssh_auth_method \in Methods
       THEN \/ /\ tcp = "open"
               /\ epc' = "authcheck"
               /\ authed' \in BOOLEAN
               /\ UNCHANGED <<config, result, tcp, session, listener, lnonblock>>
            \/ EstFail("auth_" \o config.ssh_auth_method)
       ELSE EstFail("unknown_method")
  /\ UNCHANGED EstRest
  /\ UNCHANGED mgrVars

\* mutant: the result of the authentication call is trusted, authenticated() not asked
EstAuthCheck_Skipped ==
  /\ epc = "authcheck"
  /\ epc' = "bind"
  /\ UNCHANGED <<config, result, tcp, session, authed, listener, lnonblock>>
  /\ UNCHANGED EstRest
  /\ UNCHANGED mgrVars

\* lines 69-71: if !session.authenticated()
EstAuthCheck ==
  /\ epc = "authcheck"
  /\ IF authed
       THEN epc' = "bind" /\ UNCHANGED <<config, result, tcp, session, authed, listener, lnonblock>>
       ELSE EstFail("not_authenticated")
  /\ UNCHANGED EstRest
  /\ UNCHANGED mgrVars

\* lines 74-75: TcpListener::bind("127.0.0.1:0")
EstBind ==
  /\ epc = "bind"
  /\ \/ /\ epc' = "local_addr"
        /\ listener' = "bound"
        /\ UNCHANGED <<config, result, tcp, session, authed, lnonblock>>
     \/ EstFail("bind")
  /\ UNCHANGED EstRest
  /\ UNCHANGED mgrVars

\* lines 76-79: listener.local_addr()?.port()
EstLocalAddr ==
  /\ epc = "local_addr"
  /\ \/ /\ epc' = "set_nonblocking"
        /\ UNCHANGED <<config, result, tcp, session, authed, listener, lnonblock>>
     \/ EstFail("local_addr")
  /\ UNCHANGED EstRest
  /\ UNCHANGED mgrVars

\* mutant: the listener is handed to the worker without being made non-blocking
EstSetNonblocking_Skipped ==
  /\ epc = "set_nonblocking"
  /\ epc' = "spawn"
  /\ UNCHANGED <<config, result, tcp, session, authed, listener, lnonblock>>
  /\ UNCHANGED EstRest
  /\ UNCHANGED mgrVars

\* mutant: a failure to configure the listener returns the error but keeps the
\* listener (as if it had been stored away before being configured)
EstSetNonblocking_LeaksListener ==
  /\ epc = "set_nonblocking"
  /\ \/ /\ epc' = "spawn"
        /\ lnonblock' = TRUE
        /\ UNCHANGED <<config, result, tcp, session, authed, listener>>
     \/ /\ epc' = "err"
        /\ result' = "listener_config"
        /\ tcp' = "closed"
        /\ session' = "dropped"
        /\ UNCHANGED <<config, authed, listener, lnonblock>>
  /\ UNCHANGED EstRest
  /\ UNCHANGED mgrVars

\* lines 82-84: listener.set_nonblocking(true)
EstSetNonblocking ==
  /\ epc = "set_nonblocking"
  /\ \/ /\ epc' = "spawn"
        /\ lnonblock' = TRUE
        /\ UNCHANGED <<config, result, tcp, session, authed, listener>>
     \/ EstFail("listener_config")
  /\ UNCHANGED EstRest
  /\ UNCHANGED mgrVars

\* mutant: the tunnel value is built and returned without the worker being spawned
EstSpawn_ReturnsWithoutWorker ==
  /\ epc = "spawn"
  /\ epc' = "return"
  /\ UNCHANGED <<config, result, tcp, session, authed, listener, lnonblock>>
  /\ UNCHANGED EstRest
  /\ UNCHANGED mgrVars

\* lines 87-94: mpsc::channel, thread::spawn (session, listener and shutdown_rx move
\* into the worker)
EstSpawn ==
  /\ epc = "spawn"
  /\ epc' = "return"
  /\ rxAlive' = TRUE
  /\ wpc' = "init"
  /\ UNCHANGED <<config, result, tcp, session, authed, listener, lnonblock>>
  /\ UNCHANGED <<sig, spc, blocking, connVars, dataVars, endCause, eofSent>>
  /\ UNCHANGED <<histVars, mgrVars>>

\* mutant: establish keeps a handle on the session and switches its blocking mode
\* after the worker has been spawned
EstReturn_TouchesSession ==
  /\ epc = "return"
  /\ epc' = "ok"
  /\ result' = "Ok"
  /\ blocking' = TRUE
  /\ UNCHANGED <<config, tcp, session, authed, listener, lnonblock>>
  /\ UNCHANGED <<sigVars, wpc, connVars, dataVars, endCause, eofSent>>
  /\ UNCHANGED <<histVars, mgrVars>>

\* lines 96-100: Ok(SshTunnel { local_port, shutdown_tx, forward_handle })
EstReturn ==
  /\ epc = "return"
  /\ epc' = "ok"
  /\ result' = "Ok"
  /\ UNCHANGED <<config, tcp, session, authed, listener, lnonblock>>
  /\ UNCHANGED EstRest
  /\ UNCHANGED mgrVars

(***************************************************************************)
(* The worker: forward_loop and bidirectional_copy.                         *)
(***************************************************************************)
\* the states of section 4.3: Listening, Forwarding (one episode), Closed
ListeningPcs == {"poll", "accept"}
CopyLoopPcs == {"local_read", "chan_write", "chan_read", "local_write", "eof_check"}
CleanupPcs == {"send_eof", "wait_close"}
ForwardingPcs == {"chan_open", "copy_prep"} \cup CopyLoopPcs \cup CleanupPcs
TerminatedPcs == {"done", "panicked"}

FreshData ==
  /\ cli' = "open"
  /\ remote' = "open"
  /\ cliSent' = 0
  /\ cliRecv' = <<>>
  /\ l2w' = <<>>
  /\ w2l' = <<>>
  /\ c2r' = <<>>
  /\ r2c' = <<>>
  /\ local_buf' = <<>>
  /\ channel_buf' = <<>>
  /\ chan_written' = <<>>
  /\ chan_read' = <<>>
  /\ local_written' = <<>>
  /\ chan_call' = <<>>

\* the worker's locals go out of scope: the Session (and with it the TcpStream), the
\* TcpListener (connections still in its accept queue are reset) and shutdown_rx
DropWorkerLocals ==
  /\ session' = "dropped"
  /\ tcp' = "closed"
  /\ listener' = "released"
  /\ rxAlive' = FALSE
  /\ backlog' = <<>>

\* the accepted TcpStream (both clones) goes out of scope
DropLocalStream ==
  /\ nLocal' = nLocal - 1
  /\ cur' = 0
  /\ localNonblock' = FALSE
  /\ FreshData

\* line 111: session.set_blocking(false)
WInit ==
  /\ wpc = "init"
  /\ wpc' = "poll"
  /\ blocking' = FALSE
  /\ UNCHANGED <<estVars, sigVars, connVars, dataVars, endCause, eofSent>>
  /\ UNCHANGED <<histVars, mgrVars>>

\* mutant: the poll can miss a signal that is in the channel
WPoll_MissesSignal ==
  /\ wpc = "poll"
  /\ \/ sig > 0 /\ sig' = sig - 1 /\ wpc' = "closed"
     \/ sig' = sig /\ wpc' = "accept"
  /\ UNCHANGED <<estVars, blocking, rxAlive, spc, connVars, dataVars, endCause, eofSent>>
  /\ UNCHANGED <<histVars, mgrVars>>

\* lines 115-117: if shutdown_rx.try_recv().is_ok() { break }
WPoll ==
  /\ wpc = "poll"
  /\ IF sig > 0
       THEN sig' = sig - 1 /\ wpc' = "closed"
       ELSE sig' = sig /\ wpc' = "accept"
  /\ UNCHANGED <<estVars, blocking, rxAlive, spc, connVars, dataVars, endCause, eofSent>>
  /\ UNCHANGED <<histVars, mgrVars>>

\* mutant: WouldBlock from accept is treated like any other error
WAccept_ClosesOnWouldBlock ==
  /\ wpc = "accept"
  /\ \/ /\ backlog # <<>>
        /\ wpc' = "chan_open"
        /\ cur' = Head(backlog)
        /\ backlog' = Tail(backlog)
        /\ cstate' = [cstate EXCEPT ![Head(backlog)] = "active"]
        /\ nLocal' = nLocal + 1
        /\ endCause' = "none"
        /\ eofSent' = FALSE
        /\ UNCHANGED <<nChan, localNonblock>>
     \/ /\ backlog = <<>>
        /\ lnonblock
        /\ wpc' = "closed"
        /\ UNCHANGED <<connVars, endCause, eofSent>>
     \/ /\ wpc' = "closed"
        /\ endCause' = "accept_err"
        /\ UNCHANGED <<connVars, eofSent>>
  /\ UNCHANGED <<estVars, blocking, sigVars, dataVars>>
  /\ UNCHANGED <<histVars, mgrVars>>

\* lines 119-120, 136-144: listener.accept()
WAccept ==
  /\ wpc = "accept"
  /\ \/ /\ backlog # <<>>                       \* Ok((local_stream, _))
        /\ wpc' = "chan_open"
        /\ cur' = Head(backlog)
        /\ backlog' = Tail(backlog)
        /\ cstate' = [cstate EXCEPT ![Head(backlog)] = "active"]
        /\ nLocal' = nLocal + 1
        /\ endCause' = "none"
        /\ eofSent' = FALSE
        /\ UNCHANGED <<nChan, localNonblock>>
     \/ /\ backlog = <<>>                       \* WouldBlock: sleep 50 ms
        /\ lnonblock
        /\ wpc' = "poll"
        /\ UNCHANGED <<connVars, endCause, eofSent>>
     \/ /\ wpc' = "closed"                      \* any other error: eprintln, break
        /\ endCause' = "accept_err"
        /\ UNCHANGED <<connVars, eofSent>>
  /\ UNCHANGED <<estVars, blocking, sigVars, dataVars>>
  /\ UNCHANGED <<histVars, mgrVars>>

\* mutant: on a channel-open error the accepted stream is kept instead of dropped
WChanOpen_KeepsStream ==
  /\ wpc = "chan_open"
  /\ \/ /\ tcp = "open"
        /\ wpc' = "copy_prep"
        /\ blocking' = TRUE
        /\ nChan' = nChan + 1
        /\ chan_call' = <<"open", TRUE>>
        /\ UNCHANGED <<cstate, cur, nLocal, localNonblock, dataVars, endCause>>
        /\ UNCHANGED <<chan_written, chan_read, local_written>>
     \/ /\ wpc' = "poll"
        /\ blocking' = FALSE
        /\ endCause' = "chan_open_err"
        /\ UNCHANGED <<cstate, cur, nLocal, nChan, localNonblock, dataVars, histVars>>
  /\ UNCHANGED <<estVars, sigVars, backlog, eofSent>>
  /\ UNCHANGED mgrVars

\* lines 122-135: set_blocking(true); channel_direct_tcpip; on Err the episode is over:
\* local_stream is dropped and line 134 sets the session non-blocking again
WChanOpen ==
  /\ wpc = "chan_open"
  /\ \/ /\ tcp = "open"                         \* Ok(channel)
        /\ wpc' = "copy_prep"
        /\ blocking' = TRUE
        /\ nChan' = nChan + 1
        /\ chan_call' = <<"open", TRUE>>
        /\ UNCHANGED <<cstate, cur, nLocal, localNonblock, dataVars, endCause>>
        /\ UNCHANGED <<chan_written, chan_read, local_written>>
     \/ /\ wpc' = "poll"                        \* Err(e): eprintln
        /\ blocking' = FALSE
        /\ cstate' = [cstate EXCEPT ![cur] = "over"]
        /\ DropLocalStream
        /\ endCause' = "chan_open_err"
        /\ UNCHANGED nChan
  /\ UNCHANGED <<estVars, sigVars, backlog, eofSent>>
  /\ UNCHANGED mgrVars

\* lines 150-158: set_nonblocking(true).ok() (a failure is ignored), try_clone().expect()
\* (a failure panics: the thread unwinds and drops everything it owns),
\* session.set_blocking(false)
WCopyPrep ==
  /\ wpc = "copy_prep"
  /\ \/ /\ wpc' = "local_read"
        /\ localNonblock' \in BOOLEAN
        /\ blocking' = FALSE
        /\ UNCHANGED <<estVars, rxAlive, cstate, backlog, cur, nLocal, nChan, dataVars, endCause>>
        /\ UNCHANGED histVars
     \/ /\ wpc' = "panicked"
        /\ DropWorkerLocals
        /\ DropLocalStream
        /\ nChan' = nChan - 1
        /\ cstate' = [c \in Conns |-> CASE c = cur -> "over"
                                         [] cstate[c] = "pending" -> "reset"
                                         [] OTHER -> cstate[c]]
        /\ endCause' = "panic"
        /\ UNCHANGED <<config, epc, result, authed, lnonblock, blocking>>
  /\ UNCHANGED <<sig, spc, eofSent>>
  /\ UNCHANGED mgrVars

\* the copy loop is left (break): the cleanup at lines 207-210 follows
Break(cause) ==
  /\ wpc' = "send_eof"
  /\ endCause' = cause

\* mutant: a zero-length read from the local socket is treated like WouldBlock
WLocalRead_IgnoresEof ==
  /\ wpc = "local_read"
  /\ \/ /\ l2w # <<>>
        /\ local_buf' = Take(l2w, BufSize)
        /\ l2w' = Drop(l2w, BufSize)
        /\ wpc' = "chan_write"
     \/ /\ l2w = <<>>
        /\ wpc' = "chan_read"
        /\ UNCHANGED <<l2w, local_buf>>
  /\ UNCHANGED <<estVars, blocking, sigVars, connVars, endCause, eofSent>>
  /\ UNCHANGED <<cli, remote, cliSent, cliRecv, w2l, c2r, r2c, channel_buf>>
  /\ UNCHANGED <<histVars, mgrVars>>

\* lines 167-181: local_read.read(&mut local_buf)
WLocalRead ==
  /\ wpc = "local_read"
  /\ \/ /\ l2w # <<>>                           \* Ok(n)
        /\ local_buf' = Take(l2w, BufSize)
        /\ l2w' = Drop(l2w, BufSize)
        /\ wpc' = "chan_write"
        /\ UNCHANGED endCause
     \/ /\ l2w = <<>>                           \* Ok(0): local closed
        /\ cli = "closed"
        /\ Break("local_eof")
        /\ UNCHANGED <<l2w, local_buf>>
     \/ /\ l2w = <<>>                           \* WouldBlock
        /\ cli = "open"
        /\ localNonblock
        /\ wpc' = "chan_read"
        /\ UNCHANGED <<l2w, local_buf, endCause>>
     \/ /\ cli = "closed"                       \* Err(_): connection reset
        /\ Break("local_err")
        /\ UNCHANGED <<l2w, local_buf>>
  /\ UNCHANGED <<estVars, blocking, sigVars, connVars, eofSent>>
  /\ UNCHANGED <<cli, remote, cliSent, cliRecv, w2l, c2r, r2c, channel_buf>>
  /\ UNCHANGED <<histVars, mgrVars>>

\* mutant: the write is made without set_blocking(true) before it
WChanWrite_NoBlockingToggle ==
  /\ wpc = "chan_write"
  /\ IF tcp = "open"
       THEN /\ c2r' = IF remote = "open" THEN c2r \o local_buf ELSE c2r
            /\ chan_written' = chan_written \o local_buf
            /\ wpc' = "chan_read"
            /\ UNCHANGED endCause
       ELSE /\ Break("chan_write_err")
            /\ UNCHANGED <<c2r, chan_written>>
  /\ chan_call' = <<"write", blocking>>
  /\ UNCHANGED <<blocking, chan_read, local_written>>
  /\ local_buf' = <<>>
  /\ UNCHANGED <<estVars, sigVars, connVars, eofSent>>
  /\ UNCHANGED <<cli, remote, cliSent, cliRecv, l2w, w2l, r2c, channel_buf>>
  /\ UNCHANGED mgrVars

\* mutant: the chunk is written to the channel a second time (a retry that resends)
WChanWrite_WritesTwice ==
  /\ wpc = "chan_write"
  /\ IF tcp = "open"
       THEN /\ c2r' = IF remote = "open" THEN c2r \o local_buf \o local_buf ELSE c2r
            /\ chan_written' = chan_written \o local_buf \o local_buf
            /\ blocking' = FALSE
            /\ wpc' = "chan_read"
            /\ UNCHANGED endCause
       ELSE /\ blocking' = TRUE
            /\ Break("chan_write_err")
            /\ UNCHANGED <<c2r, chan_written>>
  /\ chan_call' = <<"write", TRUE>>
  /\ UNCHANGED <<chan_read, local_written>>
  /\ local_buf' = <<>>
  /\ UNCHANGED <<estVars, sigVars, connVars, eofSent>>
  /\ UNCHANGED <<cli, remote, cliSent, cliRecv, l2w, w2l, r2c, channel_buf>>
  /\ UNCHANGED mgrVars

\* lines 171-177: set_blocking(true); channel.write_all; flush; set_blocking(false).
\* Bytes written after the remote end has closed are discarded by the server.
WChanWrite ==
  /\ wpc = "chan_write"
  /\ IF tcp = "open"
       THEN /\ c2r' = IF remote = "open" THEN c2r \o local_buf ELSE c2r
            /\ chan_written' = chan_written \o local_buf
            /\ blocking' = FALSE
            /\ wpc' = "chan_read"
            /\ UNCHANGED endCause
       ELSE /\ blocking' = TRUE                 \* write_all failed: break
            /\ Break("chan_write_err")
            /\ UNCHANGED <<c2r, chan_written>>
  /\ chan_call' = <<"write", TRUE>>            \* l.171 has set the session blocking
  /\ UNCHANGED <<chan_read, local_written>>
  /\ local_buf' = <<>>
  /\ UNCHANGED <<estVars, sigVars, connVars, eofSent>>
  /\ UNCHANGED <<cli, remote, cliSent, cliRecv, l2w, w2l, r2c, channel_buf>>
  /\ UNCHANGED mgrVars

\* mutant: WouldBlock from the channel read is treated like any other error
WChanRead_BreaksOnWouldBlock ==
  /\ wpc = "chan_read"
  /\ \/ /\ tcp = "open"
        /\ r2c # <<>>
        /\ channel_buf' = Take(r2c, BufSize)
        /\ r2c' = Drop(r2c, BufSize)
        /\ chan_read' = chan_read \o Take(r2c, BufSize)
        /\ wpc' = "local_write"
        /\ UNCHANGED endCause
     \/ /\ tcp = "open"
        /\ r2c = <<>>
        /\ remote = "eof"
        /\ Break("chan_closed")
        /\ UNCHANGED <<r2c, channel_buf, chan_read>>
     \/ /\ tcp = "open"
        /\ r2c = <<>>
        /\ remote = "open"
        /\ ~blocking
        /\ Break("chan_err")
        /\ UNCHANGED <<r2c, channel_buf, chan_read>>
     \/ /\ tcp # "open"
        /\ Break("chan_err")
        /\ UNCHANGED <<r2c, channel_buf, chan_read>>
  /\ chan_call' = <<"read", blocking>>
  /\ UNCHANGED <<chan_written, local_written>>
  /\ UNCHANGED <<estVars, blocking, sigVars, connVars, eofSent>>
  /\ UNCHANGED <<cli, remote, cliSent, cliRecv, l2w, w2l, c2r, local_buf>>
  /\ UNCHANGED mgrVars

\* lines 184-195: channel.read(&mut channel_buf)
WChanRead ==
  /\ wpc = "chan_read"
  /\ \/ /\ tcp = "open"                         \* Ok(n)
        /\ r2c # <<>>
        /\ channel_buf' = Take(r2c, BufSize)
        /\ r2c' = Drop(r2c, BufSize)
        /\ chan_read' = chan_read \o Take(r2c, BufSize)
        /\ wpc' = "local_write"
        /\ UNCHANGED endCause
     \/ /\ tcp = "open"                         \* Ok(0): channel closed
        /\ r2c = <<>>
        /\ remote = "eof"
        /\ Break("chan_closed")
        /\ UNCHANGED <<r2c, channel_buf, chan_read>>
     \/ /\ tcp = "open"                         \* WouldBlock
        /\ r2c = <<>>
        /\ remote = "open"
        /\ ~blocking
        /\ wpc' = "eof_check"
        /\ UNCHANGED <<r2c, channel_buf, endCause, chan_read>>
     \/ /\ tcp # "open"                         \* Err(_)
        /\ Break("chan_err")
        /\ UNCHANGED <<r2c, channel_buf, chan_read>>
  /\ chan_call' = <<"read", blocking>>
  /\ UNCHANGED <<chan_written, local_written>>
  /\ UNCHANGED <<estVars, blocking, sigVars, connVars, eofSent>>
  /\ UNCHANGED <<cli, remote, cliSent, cliRecv, l2w, w2l, c2r, local_buf>>
  /\ UNCHANGED mgrVars

\* lines 187-191: local_write.write_all(&channel_buf[..n]); flush.  write_all repeats
\* write() and gives up at the first error other than Interrupted: on a non-blocking
\* socket a full send buffer is the error WouldBlock, after a partial write.
WLocalWrite ==
  /\ wpc = "local_write"
  /\ LET n == Len(channel_buf)
         free == LocalCap - Len(w2l)
     IN \/ /\ cli = "open"                      \* Ok(())
           /\ n <= free
           /\ w2l' = w2l \o channel_buf
           /\ local_written' = local_written \o channel_buf
           /\ channel_buf' = <<>>
           /\ wpc' = "eof_check"
           /\ UNCHANGED endCause
        \/ /\ cli = "open"                      \* Err(WouldBlock): break
           /\ n > free
           /\ localNonblock
           /\ w2l' = w2l \o Take(channel_buf, free)
           /\ local_written' = local_written \o Take(channel_buf, free)
           /\ channel_buf' = <<>>
           /\ Break("local_write_wouldblock")
        \/ /\ cli = "open"                      \* blocking socket: write() waits for room
           /\ n > free
           /\ ~localNonblock
           /\ free > 0
           /\ w2l' = w2l \o Take(channel_buf, free)
           /\ local_written' = local_written \o Take(channel_buf, free)
           /\ channel_buf' = Drop(channel_buf, free)
           /\ UNCHANGED <<wpc, endCause>>
        \/ /\ cli = "closed"                    \* the peer is gone: the kernel still takes it
           /\ local_written' = local_written \o channel_buf
           /\ channel_buf' = <<>>
           /\ wpc' = "eof_check"
           /\ UNCHANGED <<w2l, endCause>>
        \/ /\ cli = "closed"                    \* Err(BrokenPipe / ConnectionReset): break
           /\ channel_buf' = <<>>
           /\ Break("local_write_err")
           /\ UNCHANGED <<w2l, local_written>>
  /\ UNCHANGED <<chan_written, chan_read, chan_call>>
  /\ UNCHANGED <<estVars, blocking, sigVars, connVars, eofSent>>
  /\ UNCHANGED <<cli, remote, cliSent, cliRecv, l2w, c2r, r2c, local_buf>>
  /\ UNCHANGED mgrVars

\* mutant: the copy loop polls the shutdown channel every pass and leaves the worker's
\* loop when the signal is there
WEofCheck_PollsShutdown ==
  /\ wpc = "eof_check"
  /\ IF sig > 0
       THEN wpc' = "closed" /\ sig' = sig - 1 /\ UNCHANGED endCause
       ELSE /\ sig' = sig
            /\ IF remote = "eof" /\ r2c = <<>>
                 THEN wpc' = "send_eof" /\ endCause' = "chan_eof"
                 ELSE wpc' = "local_read" /\ UNCHANGED endCause
  /\ UNCHANGED <<estVars, blocking, rxAlive, spc, connVars, dataVars, eofSent>>
  /\ UNCHANGED <<histVars, mgrVars>>

\* lines 198-204: if channel.eof() { break } (libssh2 reports EOF once the remote has
\* sent it and no data of the channel is left to read); the 1 ms sleep is not modelled
WEofCheck ==
  /\ wpc = "eof_check"
  /\ IF remote = "eof" /\ r2c = <<>>
       THEN Break("chan_eof")
       ELSE wpc' = "local_read" /\ UNCHANGED endCause
  /\ UNCHANGED <<estVars, blocking, sigVars, connVars, dataVars, eofSent>>
  /\ UNCHANGED <<histVars, mgrVars>>

\* lines 208-209: session.set_blocking(true); channel.send_eof().ok()
WSendEof ==
  /\ wpc = "send_eof"
  /\ wpc' = "wait_close"
  /\ blocking' = TRUE
  /\ eofSent' = (tcp = "open")
  /\ UNCHANGED <<estVars, sigVars, connVars, dataVars, endCause>>
  /\ UNCHANGED <<histVars, mgrVars>>

\* mutant: the end of an episode empties the shutdown channel
WWaitClose_DrainsChannel ==
  /\ wpc = "wait_close"
  /\ wpc' = "poll"
  /\ blocking' = FALSE
  /\ nChan' = nChan - 1
  /\ cstate' = [cstate EXCEPT ![cur] = "over"]
  /\ DropLocalStream
  /\ sig' = 0
  /\ UNCHANGED <<estVars, rxAlive, spc, backlog, endCause, eofSent>>
  /\ UNCHANGED mgrVars

\* mutant: after an episode the loop goes straight to accept, without the poll
WWaitClose_SkipsPoll ==
  /\ wpc = "wait_close"
  /\ wpc' = "accept"
  /\ blocking' = FALSE
  /\ nChan' = nChan - 1
  /\ cstate' = [cstate EXCEPT ![cur] = "over"]
  /\ DropLocalStream
  /\ UNCHANGED <<estVars, sigVars, backlog, endCause, eofSent>>
  /\ UNCHANGED mgrVars

\* line 210: channel.wait_close().ok(); then bidirectional_copy returns (channel and
\* both halves of the local stream are dropped) and line 134 runs set_blocking(false)
WWaitClose ==
  /\ wpc = "wait_close"
  /\ wpc' = "poll"
  /\ blocking' = FALSE
  /\ nChan' = nChan - 1
  /\ cstate' = [cstate EXCEPT ![cur] = "over"]
  /\ DropLocalStream
  /\ UNCHANGED <<estVars, sigVars, backlog, endCause, eofSent>>
  /\ UNCHANGED mgrVars

\* mutant: the listener outlives the worker (as if it were kept in the SshTunnel value)
WExit_KeepsListener ==
  /\ wpc = "closed"
  /\ wpc' = "done"
  /\ session' = "dropped"
  /\ tcp' = "closed"
  /\ rxAlive' = FALSE
  /\ UNCHANGED <<config, epc, result, authed, listener, lnonblock, blocking>>
  /\ UNCHANGED <<sig, spc, connVars, dataVars, endCause, eofSent>>
  /\ UNCHANGED <<histVars, mgrVars>>

\* line 146: forward_loop returns and the thread ends
WExit ==
  /\ wpc = "closed"
  /\ wpc' = "done"
  /\ DropWorkerLocals
  /\ cstate' = [c \in Conns |-> IF cstate[c] = "pending" THEN "reset" ELSE cstate[c]]
  /\ UNCHANGED <<config, epc, result, authed, lnonblock, blocking>>
  /\ UNCHANGED <<sig, spc, cur, nLocal, nChan, localNonblock, dataVars, endCause, eofSent>>
  /\ UNCHANGED <<histVars, mgrVars>>

Worker ==
  \/ WInit \/ WPoll \/ WAccept \/ WChanOpen \/ WCopyPrep
  \/ WLocalRead \/ WChanWrite \/ WChanRead \/ WLocalWrite \/ WEofCheck
  \/ WSendEof \/ WWaitClose \/ WExit

(***************************************************************************)
(* SshTunnel::shutdown, called at most once by the owner of the tunnel.     *)
(***************************************************************************)
\* line 214: let _ = self.shutdown_tx.send(()) (fails, ignored, once shutdown_rx is gone)
ShutdownSend ==
  /\ epc = "ok"
  /\ spc = "idle"
  /\ spc' = "sent"
  /\ sig' = IF rxAlive THEN sig + 1 ELSE sig
  /\ UNCHANGED <<estVars, blocking, rxAlive, wpc, connVars, dataVars, endCause, eofSent>>
  /\ UNCHANGED <<histVars, mgrVars>>

\* mutant: shutdown sends the signal and returns without joining the worker
ShutdownJoin_NoWait ==
  /\ spc = "sent"
  /\ spc' = "returned"
  /\ UNCHANGED <<estVars, blocking, rxAlive, sig, wpc, connVars, dataVars, endCause, eofSent>>
  /\ UNCHANGED <<histVars, mgrVars>>

\* mutant: the result of join is unwrapped, so shutdown comes back only from a worker
\* that ended by returning
ShutdownJoin_UnwrapsJoin ==
  /\ spc = "sent"
  /\ wpc = "done"
  /\ spc' = "returned"
  /\ UNCHANGED <<estVars, blocking, rxAlive, sig, wpc, connVars, dataVars, endCause, eofSent>>
  /\ UNCHANGED <<histVars, mgrVars>>

\* lines 215-218: handle.join() returns when the thread has ended (Err if it panicked)
ShutdownJoin ==
  /\ spc = "sent"
  /\ wpc \in TerminatedPcs
  /\ spc' = "returned"
  /\ UNCHANGED <<estVars, blocking, rxAlive, sig, wpc, connVars, dataVars, endCause, eofSent>>
  /\ UNCHANGED <<histVars, mgrVars>>

(***************************************************************************)
(* The environment.                                                         *)
(***************************************************************************)
\* a TCP client connects to 127.0.0.1:local_port: queued by the kernel while the
\* listener is bound, refused otherwise
ClientConnect ==
  /\ listener # "none"
  /\ \E c \in Conns :
       /\ cstate[c] = "new"
       /\ \A d \in Conns : d < c => cstate[d] # "new"
       /\ IF listener = "bound"
            THEN cstate' = [cstate EXCEPT ![c] = "pending"] /\ backlog' = Append(backlog, c)
            ELSE cstate' = [cstate EXCEPT ![c] = "refused"] /\ UNCHANGED backlog
  /\ UNCHANGED <<estVars, blocking, sigVars, wpc, cur, nLocal, nChan, localNonblock>>
  /\ UNCHANGED <<dataVars, endCause, eofSent>>
  /\ UNCHANGED <<histVars, mgrVars>>

ClientSend ==
  /\ cur # 0
  /\ cli = "open"
  /\ cliSent < MsgLen
  /\ cliSent' = cliSent + 1
  /\ l2w' = Append(l2w, Msg[cliSent + 1])
  /\ UNCHANGED <<estVars, blocking, sigVars, wpc, connVars, endCause, eofSent>>
  /\ UNCHANGED <<cli, remote, cliRecv, w2l, c2r, r2c, local_buf, channel_buf>>
  /\ UNCHANGED <<histVars, mgrVars>>

ClientRecv ==
  /\ cur # 0
  /\ cli = "open"
  /\ w2l # <<>>
  /\ cliRecv' = cliRecv \o w2l
  /\ w2l' = <<>>
  /\ UNCHANGED <<estVars, blocking, sigVars, wpc, connVars, endCause, eofSent>>
  /\ UNCHANGED <<cli, remote, cliSent, l2w, c2r, r2c, local_buf, channel_buf>>
  /\ UNCHANGED <<histVars, mgrVars>>

ClientClose ==
  /\ cur # 0
  /\ cli = "open"
  /\ cli' = "closed"
  /\ UNCHANGED <<estVars, blocking, sigVars, wpc, connVars, endCause, eofSent>>
  /\ UNCHANGED <<remote, cliSent, cliRecv, l2w, w2l, c2r, r2c, local_buf, channel_buf>>
  /\ UNCHANGED <<histVars, mgrVars>>

\* the echo service at the remote target sends back what it receives
RemoteEcho ==
  /\ nChan > 0
  /\ tcp = "open"
  /\ remote = "open"
  /\ c2r # <<>>
  /\ r2c' = r2c \o c2r
  /\ c2r' = <<>>
  /\ UNCHANGED <<estVars, blocking, sigVars, wpc, connVars, endCause, eofSent>>
  /\ UNCHANGED <<cli, remote, cliSent, cliRecv, l2w, w2l, local_buf, channel_buf>>
  /\ UNCHANGED <<histVars, mgrVars>>

\* the remote target closes its connection: the server sends EOF and close
RemoteClose ==
  /\ nChan > 0
  /\ tcp = "open"
  /\ remote = "open"
  /\ remote' = "eof"
  /\ c2r' = <<>>
  /\ UNCHANGED <<estVars, blocking, sigVars, wpc, connVars, endCause, eofSent>>
  /\ UNCHANGED <<cli, cliSent, cliRecv, l2w, w2l, r2c, local_buf, channel_buf>>
  /\ UNCHANGED <<histVars, mgrVars>>

\* the transport connection to the jump host breaks
TransportFail ==
  /\ tcp = "open"
  /\ tcp' = "down"
  /\ UNCHANGED <<config, epc, result, session, authed, listener, lnonblock>>
  /\ UNCHANGED <<blocking, sigVars, wpc, connVars, dataVars, endCause, eofSent>>
  /\ UNCHANGED <<histVars, mgrVars>>

Establish ==
  \/ EstParse \/ EstConnect \/ EstSessionNew \/ EstHandshake \/ EstAuth
  \/ EstAuthCheck \/ EstBind \/ EstLocalAddr \/ EstSetNonblocking \/ EstSpawn
  \/ EstReturn

Next ==
  \/ EstParse \/ EstConnect \/ EstSessionNew \/ EstHandshake \/ EstAuth
  \/ EstAuthCheck \/ EstBind \/ EstLocalAddr \/ EstSetNonblocking \/ EstSpawn
  \/ EstReturn
  \/ WInit \/ WPoll \/ WAccept \/ WChanOpen \/ WCopyPrep
  \/ WLocalRead \/ WChanWrite \/ WChanRead \/ WLocalWrite \/ WEofCheck
  \/ WSendEof \/ WWaitClose \/ WExit
  \/ ShutdownSend \/ ShutdownJoin
  \/ ClientConnect \/ ClientSend \/ ClientRecv \/ ClientClose
  \/ RemoteEcho \/ RemoteClose \/ TransportFail

Spec == Init /\ [][Next]_vars

\* a step of the worker other than accept() returning a hard error
WorkerRuns == Worker /\ ~(wpc = "accept" /\ wpc' = "closed")

\* the threads of the program are scheduled fairly: a worker that can take a step
\* takes one, and a join whose thread has ended returns.  Nothing obliges the
\* operating system to fail an accept, or a client to send, read or close.
\* The progress properties are about a tunnel that runs: they are explored from one
\* configuration that can be established.
FairInit == Init /\ config = [ssh_host |-> "ip", ssh_auth_method |-> "password"]
FairSpec == FairInit /\ [][Next]_vars /\ WF_vars(WorkerRuns) /\ WF_vars(ShutdownJoin)

(***************************************************************************)
(* db/connection.rs: the ConnectionManager.  Every command locks the        *)
(* manager for the whole call (lib.rs l.22-23, l.31-32), so at most one     *)
(* connect or disconnect is in progress (mpc); test_connection takes no     *)
(* lock and runs beside them (tpc).  Each tunnel is followed at the grain   *)
(* of establish's bind and spawn and of the worker's loop.                  *)
(***************************************************************************)
Unused == {t \in Tunnels : t_state[t] = "unused"}
NextTunnel == CHOOSE t \in Unused : \A u \in Unused : t <= u

\* mutant: bind is given any port, taken or not (SO_REUSEPORT-like)
FreePorts_AnyPort == Ports

\* TcpListener::bind("127.0.0.1:0"): the system picks a port no listener is bound to
FreePorts == {p \in Ports : \A u \in Tunnels : t_bound[u] => local_port[u] # p}

\* ssh_tunnel.rs l.18-79: establish got as far as binding the listener on port p
EstablishBind(t, p, id) ==
  /\ t_state' = [t_state EXCEPT ![t] = "bound"]
  /\ t_owner' = [t_owner EXCEPT ![t] = id]
  /\ local_port' = [local_port EXCEPT ![t] = p]
  /\ t_bound' = [t_bound EXCEPT ![t] = TRUE]
  /\ UNCHANGED <<t_wpc, t_sig, sends, joins>>

\* ssh_tunnel.rs l.76-84: local_addr or set_nonblocking fails, the listener is dropped
\* and no SshTunnel comes to exist
EstablishAbort(t) ==
  /\ t_state' = [t_state EXCEPT ![t] = "unused"]
  /\ t_owner' = [t_owner EXCEPT ![t] = 0]
  /\ local_port' = [local_port EXCEPT ![t] = 0]
  /\ t_bound' = [t_bound EXCEPT ![t] = FALSE]
  /\ UNCHANGED <<t_wpc, t_sig, sends, joins>>

\* ssh_tunnel.rs l.87-100: the worker is spawned and the SshTunnel returned
EstablishSpawn(t) ==
  /\ t_state' = [t_state EXCEPT ![t] = "held"]
  /\ t_wpc' = [t_wpc EXCEPT ![t] = "poll"]
  /\ UNCHANGED <<t_owner, local_port, t_bound, t_sig, sends, joins>>

\* ssh_tunnel.rs l.214: let _ = self.shutdown_tx.send(()) (Err, ignored, once the worker
\* has ended and dropped shutdown_rx)
TunShutdownSend(t) ==
  /\ t_state' = [t_state EXCEPT ![t] = "sent"]
  /\ sends' = [sends EXCEPT ![t] = @ + 1]
  /\ t_sig' = [t_sig EXCEPT ![t] = IF t_wpc[t] \in TerminatedPcs THEN @ ELSE @ + 1]
  /\ UNCHANGED <<t_owner, local_port, t_bound, t_wpc, joins>>

\* ssh_tunnel.rs l.215-219: handle.join() returns once the worker thread has ended;
\* shutdown(self) then returns and the SshTunnel value, local_port included, is gone
TunShutdownJoin(t) ==
  /\ t_wpc[t] \in TerminatedPcs
  /\ t_state' = [t_state EXCEPT ![t] = "joined"]
  /\ joins' = [joins EXCEPT ![t] = @ + 1]
  /\ t_owner' = [t_owner EXCEPT ![t] = 0]
  /\ local_port' = [local_port EXCEPT ![t] = 0]
  /\ UNCHANGED <<t_bound, t_wpc, t_sig, sends>>

\* lib.rs l.18-24 connect_db: lock the manager, call connect(&config)
MConnect ==
  /\ mpc = "idle"
  /\ \E id \in Ids, ssh \in BOOLEAN :
       /\ mid' = id
       /\ mssh' = ssh
       /\ mpc' = IF ssh THEN "c_establish" ELSE "c_connect_pg"
  /\ mt' = 0
  /\ mret' = "none"
  /\ UNCHANGED <<tunnelVars, bkVars, chatVars, regVars, tunVars, testVars>>

\* connection.rs l.116-120: spawn_blocking(SshTunnel::establish), up to the bind;
\* an error returns from connect at once (`??`)
MConnectEstablish ==
  /\ mpc = "c_establish"
  /\ \/ /\ Unused # {}
        /\ \E p \in FreePorts : EstablishBind(NextTunnel, p, mid)
        /\ mt' = NextTunnel
        /\ mpc' = "c_spawn"
        /\ UNCHANGED mret
     \/ /\ mpc' = "idle"
        /\ mret' = "connect_err_ssh"
        /\ UNCHANGED <<mt, tunVars>>
  /\ UNCHANGED <<tunnelVars, bkVars, chatVars, regVars, mid, mssh, testVars>>

\* connection.rs l.118-120: the rest of establish
MConnectSpawn ==
  /\ mpc = "c_spawn"
  /\ \/ /\ EstablishSpawn(mt)
        /\ mpc' = "c_insert"
        /\ UNCHANGED mret
     \/ /\ EstablishAbort(mt)
        /\ mpc' = "idle"
        /\ mret' = "connect_err_ssh"
  /\ UNCHANGED <<tunnelVars, bkVars, chatVars, regVars, mid, mssh, mt, testVars>>

\* mutant: a tunnel already stored for the id is shut down (signal sent) before the
\* new one replaces it
MConnectInsert_SignalsOld ==
  /\ mpc = "c_insert"
  /\ ssh_tunnels' = [ssh_tunnels EXCEPT ![mid] = mt]
  /\ LET u == ssh_tunnels[mid]
     IN IF u # 0 THEN TunShutdownSend(u) ELSE UNCHANGED tunVars
  /\ mpc' = "c_connect_pg"
  /\ UNCHANGED <<tunnelVars, bkVars, chatVars, connections, mid, mssh, mt, mret, testVars>>

\* connection.rs l.122-124: self.ssh_tunnels.insert(config.id.clone(), tunnel).  insert
\* returns the value stored before, which is dropped: SshTunnel has no Drop, so the
\* sender and the join handle just go away and the worker is left detached
MConnectInsert ==
  /\ mpc = "c_insert"
  /\ ssh_tunnels' = [ssh_tunnels EXCEPT ![mid] = mt]
  /\ LET u == ssh_tunnels[mid]
     IN t_state' = IF u # 0 THEN [t_state EXCEPT ![u] = "dropped"] ELSE t_state
  /\ mpc' = "c_connect_pg"
  /\ UNCHANGED <<t_owner, local_port, t_bound, t_wpc, t_sig, sends, joins>>
  /\ UNCHANGED <<tunnelVars, bkVars, chatVars, connections, mid, mssh, mt, mret, testVars>>

\* mutant: a failed database connection returns the error and leaves the tunnel alone
MConnectPg_NoCleanup ==
  /\ mpc = "c_connect_pg"
  /\ \/ /\ IF mt = 0 THEN TRUE ELSE t_wpc[mt] = "forwarding"
        /\ connections' = [connections EXCEPT ![mid] = <<mt>>]
        /\ mpc' = "idle"
        /\ mret' = "connect_ok"
     \/ /\ mpc' = "idle"
        /\ mret' = "connect_err_pg"
        /\ UNCHANGED connections
  /\ UNCHANGED <<tunnelVars, bkVars, chatVars, ssh_tunnels, tunVars, mid, mssh, mt, testVars>>

\* connection.rs l.129-138: build_connection_string, connect_pg.  A connection through
\* the tunnel succeeds only while the tunnel's worker forwards it.  On Err the entry of
\* the id is removed from ssh_tunnels (whichever call stored it)
MConnectPg ==
  /\ mpc = "c_connect_pg"
  /\ \/ /\ IF mt = 0 THEN TRUE ELSE t_wpc[mt] = "forwarding"
        /\ connections' = [connections EXCEPT ![mid] = <<mt>>]
        /\ mpc' = "idle"
        /\ mret' = "connect_ok"
        /\ UNCHANGED <<ssh_tunnels, mt>>
     \/ /\ IF ssh_tunnels[mid] # 0
             THEN /\ mt' = ssh_tunnels[mid]
                  /\ ssh_tunnels' = [ssh_tunnels EXCEPT ![mid] = 0]
                  /\ mpc' = "c_cleanup_send"
                  /\ UNCHANGED mret
             ELSE /\ mpc' = "idle"
                  /\ mret' = "connect_err_pg"
                  /\ UNCHANGED <<ssh_tunnels, mt>>
        /\ UNCHANGED connections
  /\ UNCHANGED <<tunnelVars, bkVars, chatVars, tunVars, mid, mssh, testVars>>

\* connection.rs l.139: spawn_blocking(tunnel.shutdown()), the send
MConnectCleanupSend ==
  /\ mpc = "c_cleanup_send"
  /\ TunShutdownSend(mt)
  /\ mpc' = "c_cleanup_join"
  /\ UNCHANGED <<tunnelVars, bkVars, chatVars, regVars, mid, mssh, mt, mret, testVars>>

\* connection.rs l.139-143: the join, then Err(e)
MConnectCleanupJoin ==
  /\ mpc = "c_cleanup_join"
  /\ TunShutdownJoin(mt)
  /\ mpc' = "idle"
  /\ mret' = "connect_err_pg"
  /\ UNCHANGED <<tunnelVars, bkVars, chatVars, regVars, mid, mssh, mt, testVars>>

\* lib.rs l.27-33 disconnect_db: lock the manager, call disconnect(&connection_id)
MDisconnect ==
  /\ mpc = "idle"
  /\ \E id \in Ids : mid' = id
  /\ mt' = 0
  /\ mpc' = "d_remove"
  /\ mssh' = FALSE
  /\ mret' = "none"
  /\ UNCHANGED <<tunnelVars, bkVars, chatVars, regVars, tunVars, testVars>>

\* mutant: the tunnel is looked up with get instead of remove and stays in the map
MDisconnectRemove_KeepsEntry ==
  /\ mpc = "d_remove"
  /\ connections' = [connections EXCEPT ![mid] = <<>>]
  /\ IF ssh_tunnels[mid] # 0
       THEN /\ mt' = ssh_tunnels[mid]
            /\ mpc' = "d_send"
            /\ UNCHANGED mret
       ELSE /\ mpc' = "idle"
            /\ mret' = "disconnect_ok"
            /\ UNCHANGED mt
  /\ UNCHANGED <<tunnelVars, bkVars, chatVars, ssh_tunnels, tunVars, mid, mssh, testVars>>

\* mutant: disconnect clears the whole tunnel map instead of removing one entry
MDisconnectRemove_ClearsMap ==
  /\ mpc = "d_remove"
  /\ connections' = [connections EXCEPT ![mid] = <<>>]
  /\ ssh_tunnels' = [i \in Ids |-> 0]
  /\ IF ssh_tunnels[mid] # 0
       THEN /\ mt' = ssh_tunnels[mid]
            /\ mpc' = "d_send"
            /\ UNCHANGED mret
       ELSE /\ mpc' = "idle"
            /\ mret' = "disconnect_ok"
            /\ UNCHANGED mt
  /\ UNCHANGED <<tunnelVars, bkVars, chatVars, tunVars, mid, mssh, testVars>>

\* connection.rs l.149-151, 154: connections.remove, ssh_tunnels.remove; Ok(()) at once
\* when no tunnel was stored
MDisconnectRemove ==
  /\ mpc = "d_remove"
  /\ connections' = [connections EXCEPT ![mid] = <<>>]
  /\ ssh_tunnels' = [ssh_tunnels EXCEPT ![mid] = 0]
  /\ IF ssh_tunnels[mid] # 0
       THEN /\ mt' = ssh_tunnels[mid]
            /\ mpc' = "d_send"
            /\ UNCHANGED mret
       ELSE /\ mpc' = "idle"
            /\ mret' = "disconnect_ok"
            /\ UNCHANGED mt
  /\ UNCHANGED <<tunnelVars, bkVars, chatVars, tunVars, mid, mssh, testVars>>

\* connection.rs l.152: tunnel.shutdown(), the send
MDisconnectSend ==
  /\ mpc = "d_send"
  /\ TunShutdownSend(mt)
  /\ mpc' = "d_join"
  /\ UNCHANGED <<tunnelVars, bkVars, chatVars, regVars, mid, mssh, mt, mret, testVars>>

\* mutant: disconnect returns once the signal is sent, without the join
MDisconnectJoin_NoWait ==
  /\ mpc = "d_join"
  /\ mpc' = "idle"
  /\ mret' = "disconnect_ok"
  /\ UNCHANGED <<tunnelVars, bkVars, chatVars, regVars, tunVars, mid, mssh, mt, testVars>>

\* connection.rs l.152-154: the join (on the calling thread, the lock held), then Ok(())
MDisconnectJoin ==
  /\ mpc = "d_join"
  /\ TunShutdownJoin(mt)
  /\ mpc' = "idle"
  /\ mret' = "disconnect_ok"
  /\ UNCHANGED <<tunnelVars, bkVars, chatVars, regVars, mid, mssh, mt, testVars>>

\* lib.rs l.13-15, connection.rs l.76-86: test_connection(&config), no lock taken, for
\* a config with use_ssh_tunnel (without it the call creates no tunnel and touches
\* nothing of the manager: it is a step that changes no variable)
TTest ==
  /\ tpc = "idle"
  /\ tpc' = "t_establish"
  /\ tt' = 0
  /\ UNCHANGED <<tunnelVars, bkVars, chatVars, regVars, tunVars, opVars>>

\* connection.rs l.78-83: spawn_blocking(SshTunnel::establish), up to the bind
TTestEstablish ==
  /\ tpc = "t_establish"
  /\ \/ /\ Unused # {}
        /\ \E p \in FreePorts : EstablishBind(NextTunnel, p, 0)
        /\ tt' = NextTunnel
        /\ tpc' = "t_spawn"
     \/ /\ tpc' = "idle"
        /\ UNCHANGED <<tt, tunVars>>
  /\ UNCHANGED <<tunnelVars, bkVars, chatVars, regVars, opVars>>

\* connection.rs l.80-83: the rest of establish
TTestSpawn ==
  /\ tpc = "t_spawn"
  /\ \/ EstablishSpawn(tt) /\ tpc' = "t_pg" /\ UNCHANGED tt
     \/ EstablishAbort(tt) /\ tpc' = "idle" /\ tt' = 0
  /\ UNCHANGED <<tunnelVars, bkVars, chatVars, regVars, opVars>>

\* mutant: an error of connect_pg or of the query returns at once (`?` outside the
\* async block), before the shutdown of the temporary tunnel
TTestPg_ReturnsOnErr ==
  /\ tpc = "t_pg"
  /\ \/ tpc' = "t_send" /\ UNCHANGED tt
     \/ tpc' = "idle" /\ tt' = 0
  /\ UNCHANGED <<tunnelVars, bkVars, chatVars, regVars, tunVars, opVars>>

\* connection.rs l.88-105: connect_pg and the version query, Ok or Err alike
TTestPg ==
  /\ tpc = "t_pg"
  /\ tpc' = "t_send"
  /\ UNCHANGED <<tunnelVars, bkVars, chatVars, regVars, tunVars, opVars, tt>>

\* connection.rs l.105-106: spawn_blocking(t.shutdown()), the send
TTestSend ==
  /\ tpc = "t_send"
  /\ TunShutdownSend(tt)
  /\ tpc' = "t_join"
  /\ UNCHANGED <<tunnelVars, bkVars, chatVars, regVars, opVars, tt>>

\* connection.rs l.106-111: the join, then the result is returned
TTestJoin ==
  /\ tpc = "t_join"
  /\ TunShutdownJoin(tt)
  /\ tpc' = "idle"
  /\ tt' = 0
  /\ UNCHANGED <<tunnelVars, bkVars, chatVars, regVars, opVars>>

\* ssh_tunnel.rs l.115-117: try_recv().is_ok(); Err(Empty) and Err(Disconnected) (the
\* sender was dropped) both go on to accept
FwdPoll ==
  /\ \E t \in Tunnels :
       /\ t_wpc[t] = "poll"
       /\ IF t_sig[t] > 0
            THEN /\ t_sig' = [t_sig EXCEPT ![t] = @ - 1]
                 /\ t_wpc' = [t_wpc EXCEPT ![t] = "closed"]
            ELSE /\ t_wpc' = [t_wpc EXCEPT ![t] = "accept"]
                 /\ UNCHANGED t_sig
  /\ UNCHANGED <<t_state, t_owner, local_port, t_bound, sends, joins>>
  /\ UNCHANGED <<tunnelVars, bkVars, chatVars, regVars, opVars, testVars>>

\* ssh_tunnel.rs l.119-144: accept: a local connection (from the database client of
\* connect_pg or from any process on the host), WouldBlock, or a hard error
FwdAccept ==
  /\ \E t \in Tunnels :
       /\ t_wpc[t] = "accept"
       /\ \E to \in {"forwarding", "poll", "closed"} : t_wpc' = [t_wpc EXCEPT ![t] = to]
  /\ UNCHANGED <<t_state, t_owner, local_port, t_bound, t_sig, sends, joins>>
  /\ UNCHANGED <<tunnelVars, bkVars, chatVars, regVars, opVars, testVars>>

\* ssh_tunnel.rs l.122-134, 148-211: the episode ends and the loop goes on, or
\* try_clone().expect() panics and the thread unwinds, dropping the listener
FwdEpisode ==
  /\ \E t \in Tunnels :
       /\ t_wpc[t] = "forwarding"
       /\ \/ /\ t_wpc' = [t_wpc EXCEPT ![t] = "poll"]
             /\ UNCHANGED t_bound
          \/ /\ t_wpc' = [t_wpc EXCEPT ![t] = "panicked"]
             /\ t_bound' = [t_bound EXCEPT ![t] = FALSE]
  /\ UNCHANGED <<t_state, t_owner, local_port, t_sig, sends, joins>>
  /\ UNCHANGED <<tunnelVars, bkVars, chatVars, regVars, opVars, testVars>>

\* mutant: the listener stays bound when the worker has returned
FwdExit_KeepsListener ==
  /\ \E t \in Tunnels :
       /\ t_wpc[t] = "closed"
       /\ t_wpc' = [t_wpc EXCEPT ![t] = "done"]
  /\ UNCHANGED <<t_state, t_owner, local_port, t_bound, t_sig, sends, joins>>
  /\ UNCHANGED <<tunnelVars, bkVars, chatVars, regVars, opVars, testVars>>

\* ssh_tunnel.rs l.145-146: forward_loop returns: session, listener, shutdown_rx dropped
FwdExit ==
  /\ \E t \in Tunnels :
       /\ t_wpc[t] = "closed"
       /\ t_wpc' = [t_wpc EXCEPT ![t] = "done"]
       /\ t_bound' = [t_bound EXCEPT ![t] = FALSE]
  /\ UNCHANGED <<t_state, t_owner, local_port, t_sig, sends, joins>>
  /\ UNCHANGED <<tunnelVars, bkVars, chatVars, regVars, opVars, testVars>>

MgrNext ==
  \/ MConnect \/ MConnectEstablish \/ MConnectSpawn \/ MConnectInsert \/ MConnectPg
  \/ MConnectCleanupSend \/ MConnectCleanupJoin
  \/ MDisconnect \/ MDisconnectRemove \/ MDisconnectSend \/ MDisconnectJoin
  \/ TTest \/ TTestEstablish \/ TTestSpawn \/ TTestPg \/ TTestSend \/ TTestJoin
  \/ FwdPoll \/ FwdAccept \/ FwdEpisode \/ FwdExit

\* connection.rs l.164-166: self.ssh_tunnels.get(connection_id).map(|t| t.local_port)
get_tunnel_port(id) == IF ssh_tunnels[id] = 0 THEN 0 ELSE local_port[ssh_tunnels[id]]

\* config.port: the port of the database at the target, no port of this host
TargetPort == MaxPorts + 1

\* lib.rs l.258-261, l.275-278: the command locks the manager for the lookup only
BackupLookup ==
  /\ bpc = "idle"
  /\ mpc = "idle"
  /\ \E id \in Ids : tunnel_port' = get_tunnel_port(id)
  /\ bpc' = "spawned"
  /\ UNCHANGED <<tunnelVars, chatVars, regVars, tunVars, opVars, testVars, utility>>

\* backup.rs l.69-77 (pg_dump), l.112-118 (psql), l.142-149 (pg_restore): the program
\* is given -h config.host -p config.port; neither function takes the tunnel port
BackupRun ==
  /\ bpc = "spawned"
  /\ \E program \in {"pg_dump", "psql", "pg_restore"} :
       utility' = <<program, "config.host", TargetPort>>
  /\ bpc' = "ran"
  /\ UNCHANGED <<tunnelVars, chatVars, regVars, tunVars, opVars, testVars, tunnel_port>>

\* lib.rs l.262-267, l.279-284: the result of the blocking task is returned
BackupReturn ==
  /\ bpc = "ran"
  /\ bpc' = "idle"
  /\ tunnel_port' = 0
  /\ utility' = <<>>
  /\ UNCHANGED <<tunnelVars, chatVars, regVars, tunVars, opVars, testVars>>

\* the manager's commands together with backup and restore
BackupNext ==
  \/ MConnect \/ MConnectEstablish \/ MConnectSpawn \/ MConnectInsert \/ MConnectPg
  \/ MConnectCleanupSend \/ MConnectCleanupJoin
  \/ MDisconnect \/ MDisconnectRemove \/ MDisconnectSend \/ MDisconnectJoin
  \/ FwdPoll \/ FwdAccept \/ FwdEpisode \/ FwdExit
  \/ BackupLookup \/ BackupRun \/ BackupReturn

\* the single tunnel of Spec is not run here: its variables stay as Init leaves them
MgrInit == Init /\ config = [ssh_host |-> "ip", ssh_auth_method |-> "password"]
MgrSpec == MgrInit /\ [][MgrNext]_vars
BackupSpec == MgrInit /\ [][BackupNext]_vars

\* mutant: ai_chat reads the client map without taking the lock
AiChatStart_NoLock ==
  /\ chat = <<>>
  /\ \E id \in Ids : connections[id] # <<>> /\ chat' = connections[id]
  /\ UNCHANGED <<tunnelVars, bkVars, regVars, tunVars, opVars, testVars>>

\* lib.rs l.352-355 ai_chat: the manager is locked for get_client only; the
\* Arc<Client> it returns is a clone that outlives the lock
AiChatStart ==
  /\ mpc = "idle"
  /\ chat = <<>>
  /\ \E id \in Ids : connections[id] # <<>> /\ chat' = connections[id]
  /\ UNCHANGED <<tunnelVars, bkVars, regVars, tunVars, opVars, testVars>>

\* lib.rs l.356: ai::ai_chat(&client, ...).await is over and the clone is dropped
AiChatEnd ==
  /\ chat # <<>>
  /\ chat' = <<>>
  /\ UNCHANGED <<tunnelVars, bkVars, regVars, tunVars, opVars, testVars>>

\* a client connected through tunnel t is alive: stored in connections or held by
\* ai_chat.  tokio-postgres closes the connection once every clone is dropped
Holder(t) == chat = <<t>> \/ \E id \in Ids : connections[id] = <<t>>

\* a step of tunnel t's worker that the scheduler owes it: the poll, the exit, an
\* accept that returns (a hard error aside), and the end of an episode whose
\* connection no client holds open any more
TunnelRuns(t) ==
  /\ \/ FwdPoll
     \/ FwdExit
     \/ FwdAccept /\ t_wpc'[t] # "closed"
     \/ FwdEpisode /\ ~Holder(t) /\ t_wpc'[t] = "poll"
  /\ t_wpc'[t] # t_wpc[t]

\* the manager's commands together with ai_chat
LockNext ==
  \/ MConnect \/ MConnectEstablish \/ MConnectSpawn \/ MConnectInsert \/ MConnectPg
  \/ MConnectCleanupSend \/ MConnectCleanupJoin
  \/ MDisconnect \/ MDisconnectRemove \/ MDisconnectSend \/ MDisconnectJoin
  \/ FwdPoll \/ FwdAccept \/ FwdEpisode \/ FwdExit
  \/ AiChatStart \/ AiChatEnd

\* the runtime runs the disconnect command on and schedules every worker thread;
\* nothing obliges ai_chat to end, a client to connect or a connection to break
LockSpec ==
  /\ MgrInit
  /\ [][LockNext]_vars
  /\ WF_vars(MDisconnectRemove \/ MDisconnectSend \/ MDisconnectJoin)
  /\ \A t \in Tunnels : WF_vars(TunnelRuns(t))

(***************************************************************************)
(* Properties.                                                              *)
(***************************************************************************)
IsPrefix(s, t) == Len(s) <= Len(t) /\ s = SubSeq(t, 1, Len(s))

\* the bytes of the current client that are on their way through the relay and the
\* echo service, oldest first
InFlight == cliRecv \o w2l \o channel_buf \o r2c \o c2r \o local_buf \o l2w

\* C1 (as stated): whenever the caller holds the tunnel returned by establish (Ok, not
\* yet given to shutdown), the listener is bound and the worker has been spawned.
C1_PortHeldListenerBound ==
  (epc = "ok" /\ spc = "idle") => (listener = "bound" /\ wpc # "unspawned")

\* C1 (amended): when establish has returned Ok the listener has been bound and the
\* worker spawned before the return; while the caller holds the tunnel the listener is
\* bound and non-blocking unless the worker has already ended.
C1_BoundAndSpawnedBeforeReturn ==
  (epc = "ok" /\ spc = "idle") =>
     /\ wpc # "unspawned"
     /\ listener \in {"bound", "released"}
     /\ lnonblock
     /\ (listener = "released" => wpc \in TerminatedPcs)

C1_Witness == epc = "ok" /\ spc = "idle" /\ listener = "bound" /\ wpc = "accept"

\* C2: an establish call that returned an error has left no bound listener, no worker
\* and no shutdown channel, and its session and transport connection are discarded.
C2_FailedEstablishLeavesNothing ==
  (epc = "err") =>
     /\ result \notin {"none", "Ok"}
     /\ listener # "bound"
     /\ wpc = "unspawned"
     /\ ~rxAlive
     /\ session \in {"none", "dropped"}
     /\ tcp \in {"none", "closed"}

C2_Witness ==
  epc = "err" /\ result = "listener_config" /\ listener = "released" /\ session = "dropped"

\* C3: once shutdown has returned the worker thread has ended, the listener is
\* released, and no connection is queued at or held by this tunnel: a connection
\* attempt to the former port made after that is refused.
C3_ShutdownReturnsAfterTeardown ==
  (spc = "returned") =>
     /\ wpc \in TerminatedPcs
     /\ listener = "released"
     /\ backlog = <<>>
     /\ cur = 0
     /\ \A c \in Conns : cstate[c] \notin {"pending", "active"}

C3_Witness == spc = "returned" /\ \E c \in Conns : cstate[c] = "refused"

\* C4: while neither the client nor the echoing remote end has closed and the transport
\* is up, the copy loop has not ended and every byte the client has written is either
\* back at the client or still on its way, in order: nothing is lost.
C4_ByteExactRelay ==
  (cur # 0 /\ wpc \in (CopyLoopPcs \cup CleanupPcs)
     /\ cli = "open" /\ remote = "open" /\ tcp = "open") =>
       /\ endCause = "none"
       /\ InFlight = Take(Msg, cliSent)

\* C5: no step taken during a forwarding episode ends the worker or releases the
\* listener, whatever fails in the episode.
C5_EpisodeFailureKeepsTunnel ==
  [][(wpc \in ForwardingPcs) =>
       (wpc' \notin (TerminatedPcs \cup {"closed"}) /\ listener' = "bound")]_vars

C7_ShutdownInListeningReturns ==
  (spc = "sent" /\ wpc \in ListeningPcs /\ cur = 0) ~> (spc = "returned")

\* C7 (amended): ... leads to the shutdown call returning, unless the worker accepts a
\* local connection at the accept that follows a poll made before the signal was sent.
C7_ShutdownInListeningReturnsOrForwards ==
  (spc = "sent" /\ wpc \in ListeningPcs /\ cur = 0) ~>
     (spc = "returned" \/ wpc \in ForwardingPcs)

C7_Witness == spc = "returned" /\ wpc = "done" /\ sig = 0 /\ \A c \in Conns : cstate[c] = "new"

\* C8: no step taken while an episode is active closes the worker's loop, consumes the
\* shutdown signal or lets the shutdown call return.
C8_EpisodeNotInterruptible ==
  [][(wpc \in ForwardingPcs) =>
       (/\ wpc' \notin {"closed", "done"}
        /\ sig' >= sig
        /\ (spc' = "returned" => spc = "returned"))]_vars

C8_Witness == spc = "sent" /\ sig = 1 /\ wpc \in CopyLoopPcs /\ cliSent > 0

\* C9: the worker holds at most one accepted local socket and at most one remote
\* channel, and it accepts only when it holds neither.
C9_SingleForwardingSlot ==
  /\ [](nLocal <= 1 /\ nChan <= 1 /\ nChan <= nLocal)
  /\ [][(nLocal' > nLocal) => (wpc = "accept" /\ nLocal = 0 /\ nChan = 0)]_vars

C9_Witness == nLocal = 1 /\ nChan = 1 /\ cur = 2 /\ backlog = <<>>

\* C10: a connection queued at the listener is not dropped while an episode is active
\* and no shutdown has been requested, and it is accepted afterwards.
C10_SecondConnectionServed ==
  /\ [][\A c \in Conns :
          (cstate[c] = "pending" /\ wpc \in ForwardingPcs /\ spc = "idle")
             => cstate'[c] = "pending"]_vars
  /\ \A c \in Conns :
       (cstate[c] = "pending" /\ wpc \in ForwardingPcs /\ spc = "idle")
          ~> (cstate[c] = "active" \/ spc # "idle")

\* the manager is between operations and the last one was kind
Returned(kind) == mpc = "idle" /\ mret = kind

\* a tunnel whose worker thread has been started and has not ended
Running(t) == t_wpc[t] \notin (TerminatedPcs \cup {"unspawned"})

\* C11: when disconnect(id) has returned, the manager holds neither a tunnel nor a
\* client for id, and the tunnel it had stored for id has been shut down: one signal
\* sent, the worker ended and joined, the listener released.
C11_DisconnectShutsTunnelDown ==
  Returned("disconnect_ok") =>
     /\ ssh_tunnels[mid] = 0
     /\ connections[mid] = <<>>
     /\ (mt # 0) =>
          /\ t_state[mt] = "joined"
          /\ sends[mt] = 1
          /\ joins[mt] = 1
          /\ t_wpc[mt] \in TerminatedPcs
          /\ ~t_bound[mt]

C11_Witness ==
  Returned("disconnect_ok") /\ mt # 0 /\ t_state[mt] = "joined" /\ t_wpc[mt] = "done"

\* C12: when connect has established a tunnel and then returned the error of the
\* database connection, no tunnel is stored for the id, the tunnel of that call has
\* been shut down, and no worker of a tunnel established for that id is running.
C12_FailedConnectLeavesNoWorker ==
  (Returned("connect_err_pg") /\ mssh) =>
     /\ ssh_tunnels[mid] = 0
     /\ mt # 0
     /\ t_state[mt] = "joined"
     /\ t_wpc[mt] \in TerminatedPcs
     /\ \A u \in Tunnels : t_owner[u] = mid => ~Running(u)

\* the part of C12 about the tunnel of the failing call itself
C12_OwnTunnelShutDown ==
  (Returned("connect_err_pg") /\ mssh) =>
     /\ ssh_tunnels[mid] = 0
     /\ mt # 0
     /\ t_state[mt] = "joined"
     /\ t_wpc[mt] \in TerminatedPcs
     /\ ~t_bound[mt]

\* C13: the step of disconnect(id) that finds no tunnel stored for id returns Ok at
\* once, sends no signal, joins nothing, and changes no tunnel and no entry of the
\* manager other than the client of id.
C13_DisconnectWithoutTunnelIsNoop ==
  [][(mpc = "d_remove" /\ mpc' # "d_remove" /\ ssh_tunnels[mid] = 0) =>
       (/\ mpc' = "idle"
        /\ mret' = "disconnect_ok"
        /\ ssh_tunnels' = ssh_tunnels
        /\ \A i \in Ids : (i # mid) => (connections'[i] = connections[i])
        /\ tunVars' = tunVars)]_vars

\* disconnect of an id without tunnel has returned while the tunnel of the other id runs
C13_Witness ==
  /\ Returned("disconnect_ok") /\ mt = 0
  /\ \E i \in Ids : i # mid /\ ssh_tunnels[i] # 0 /\ connections[i] # <<>>
                     /\ t_wpc[ssh_tunnels[i]] = "forwarding"

\* C14: an establish call with an unrecognised authentication method has opened no
\* transport connection and created no session when it returns the unknown-method error.
C14_UnknownMethodBeforeNetwork ==
  (result = "unknown_method") => (tcp = "none" /\ session = "none")

\* the phases of establish in the order of the source, and the error each one returns
PhaseRank(p) ==
  CASE p = "parse" -> 1 [] p = "connect" -> 2 [] p = "session_new" -> 3
    [] p = "handshake" -> 4 [] p = "auth" -> 5 [] p = "authcheck" -> 6
    [] p = "bind" -> 7 [] p = "local_addr" -> 8 [] p = "set_nonblocking" -> 9
    [] p = "spawn" -> 10 [] p = "return" -> 11 [] p = "ok" -> 12

ErrorOfPhase(p) ==
  CASE p = "parse" -> "addr"
    [] p = "connect" -> "connect"
    [] p = "session_new" -> "session_new"
    [] p = "handshake" -> "handshake"
    [] p = "auth" -> IF config.ssh_auth_method \in Methods
                       THEN "auth_" \o config.ssh_auth_method
                       ELSE "unknown_method"
    [] p = "authcheck" -> "not_authenticated"
    [] p = "bind" -> "bind"
    [] p = "local_addr" -> "local_addr"
    [] p = "set_nonblocking" -> "listener_config"

AuthErrors == {"auth_" \o m : m \in Methods}

\* C15: establish attempts its phases in the order address, connect, session,
\* handshake, authentication, authenticated check, bind, ...; the error it returns is
\* the error of the phase it was in when it failed; after the failure it does nothing
\* more; and an authentication error names the method of the request.
C15_ErrorNamesFirstFailedPhase ==
  /\ [][(epc' # epc) =>
          IF epc' = "err"
            THEN epc # "err" /\ result' = ErrorOfPhase(epc)
            ELSE PhaseRank(epc') = PhaseRank(epc) + 1 /\ result' \in {"none", "Ok"}]_vars
  /\ [][(epc = "err") => (<<epc, result, tcp, session, authed, listener>>' =
                            <<epc, result, tcp, session, authed, listener>>)]_vars
  /\ [](/\ (result \in AuthErrors) => (result = "auth_" \o config.ssh_auth_method)
        /\ (result = "addr") => (tcp = "none")
        /\ (result = "connect") => (tcp = "none" /\ session = "none")
        /\ (result \in {"session_new", "handshake"} \cup AuthErrors) =>
              (~authed /\ listener = "none")
        /\ (result = "not_authenticated") => (listener = "none"))

C15_Witness ==
  /\ epc = "err" /\ result = "auth_key" /\ config.ssh_auth_method = "key"
  /\ tcp = "closed" /\ session = "dropped" /\ listener = "none"

\* C16: establish gets past the authenticated check only with an authenticated
\* session: a listener is bound, a worker spawned or Ok returned only if
\* session.authenticated() held, and a call whose authentication call returned without
\* error but left the session unauthenticated fails with no listener and no worker.
C16_OkOnlyIfAuthenticated ==
  /\ (result = "Ok" \/ listener # "none" \/ wpc # "unspawned") => authed
  /\ (epc = "err" /\ result = "not_authenticated") =>
        (~authed /\ listener = "none" /\ wpc = "unspawned" /\ ~rxAlive)

C16_Witness ==
  epc = "err" /\ result = "not_authenticated" /\ ~authed /\ session = "dropped"

\* C17: every tunnel gets at most one shutdown signal and at most one join, the join
\* after the signal; a message enters a tunnel's shutdown channel only in the send of
\* the operation that owns the tunnel (connect's cleanup, disconnect, test_connection),
\* and leaves it only in the worker's poll.
C17_OneSignalOneJoin ==
  /\ [](\A t \in Tunnels : sends[t] <= 1 /\ joins[t] <= sends[t] /\ t_sig[t] <= 1)
  /\ [][\A t \in Tunnels :
          /\ (t_sig'[t] > t_sig[t] \/ sends'[t] > sends[t]) =>
                \/ mpc \in {"c_cleanup_send", "d_send"} /\ mt = t /\ mpc' # mpc /\ tpc' = tpc
                \/ tpc = "t_send" /\ tt = t /\ tpc' # tpc /\ mpc' = mpc
          /\ (t_sig'[t] < t_sig[t]) => (t_wpc[t] = "poll" /\ t_wpc'[t] = "closed")]_vars

\* a tunnel replaced in the map without shutdown, and one shut down: neither got a
\* second signal
C17_Witness ==
  \E t, u \in Tunnels :
     /\ t_state[t] = "dropped" /\ sends[t] = 0
     /\ t_state[u] = "joined" /\ sends[u] = 1 /\ joins[u] = 1

\* what belongs to the worker once it is spawned: the session and its blocking mode,
\* the listener, the accepted socket and the channel, and the two buffers
WorkerOwned ==
  <<session, blocking, listener, lnonblock, cur, nLocal, nChan, localNonblock,
    local_buf, channel_buf, eofSent>>

\* C18: once the worker is spawned, every step that changes the session, the listener,
\* the accepted socket or the channel is a step of the worker; the steps of the
\* establishing thread and of the thread calling shutdown change only their own
\* position, the shutdown channel and the returned value.
C18_WorkerOwnsSessionAndSockets ==
  [][(wpc # "unspawned") =>
       /\ (WorkerOwned' # WorkerOwned) => Worker
       /\ (epc' # epc \/ spc' # spc) =>
             (WorkerOwned' = WorkerOwned /\ wpc' = wpc /\ tcp' = tcp)]_vars

\* establish has not returned yet and the worker already works on session and listener
C18_Witness ==
  epc = "return" /\ wpc = "chan_open" /\ ~blocking /\ nLocal = 1 /\ cur = 1

\* C19: in every state after establish has returned Ok, the listener is bound exactly
\* when the worker thread has not ended.
C19_ListenerLivesWithWorker ==
  (epc = "ok") => ((listener = "bound") <=> (wpc \notin TerminatedPcs))

\* the worker stopped on a hard accept error, no shutdown requested
C19_Witness ==
  epc = "ok" /\ spc = "idle" /\ sig = 0 /\ wpc = "done" /\ listener = "released"

\* C20 (as stated): any two tunnels whose establish calls succeeded and that have not
\* been shut down are live together, on different local ports.
C20_HeldTunnelsLiveOnDistinctPorts ==
  \A t, u \in Tunnels :
     (t # u /\ t_state[t] = "held" /\ t_state[u] = "held") =>
        /\ t_bound[t] /\ t_bound[u]
        /\ local_port[t] # local_port[u]

\* C20 (amended): any two tunnels whose listeners are bound have different local
\* ports, and a tunnel whose worker has not ended has its listener bound.
C20_BoundListenersOnDistinctPorts ==
  /\ \A t, u \in Tunnels :
        (t # u /\ t_bound[t] /\ t_bound[u]) => (local_port[t] # local_port[u])
  /\ \A t \in Tunnels : Running(t) => (t_bound[t] /\ local_port[t] \in Ports)

\* two establish calls in progress together, one of connect and one of
\* test_connection, both past their bind
C20_Witness ==
  /\ mpc = "c_spawn" /\ tpc = "t_spawn" /\ mt # tt
  /\ t_bound[mt] /\ t_bound[tt] /\ local_port[mt] # local_port[tt]

(***************************************************************************)
(* Shutdown of a worker that has ended, the worker's states, the copy loop. *)
(***************************************************************************)
\* C21: shutdown returns to its caller even when the worker panicked or had ended
\* before the signal was sent: once the signal is sent (or the send has failed
\* because the receiver is gone) and the thread has ended, by returning or by a
\* panic, the join comes back and the call returns.
C21_ShutdownReturnsFromEndedWorker ==
  (spc = "sent" /\ wpc \in TerminatedPcs) ~> (spc = "returned")

\* shutdown has returned from a worker that panicked, its signal never received
C21_Witness == spc = "returned" /\ wpc = "panicked" /\ sig = 0 /\ ~rxAlive

\* C22: when a tunnel is registered for the connection id, backup and restore run the
\* external utility against 127.0.0.1:<the tunnel's local port>, not against the
\* host and port of the configuration.
C22_BackupUsesTunnelEndpoint ==
  (bpc = "ran" /\ tunnel_port # 0) =>
     (utility[2] = "127.0.0.1" /\ utility[3] = tunnel_port)

\* the state of section 4.3 the worker is in
WorkerState(pc) ==
  CASE pc \in ListeningPcs \cup {"init"} -> "Listening"
    [] pc \in ForwardingPcs -> "Forwarding"
    [] pc \in TerminatedPcs \cup {"closed"} -> "Closed"
    [] OTHER -> "NotSpawned"

\* the transitions of Listening -> (Forwarding)* -> Closed
Transitions ==
  {<<"NotSpawned", "Listening">>, <<"Listening", "Forwarding">>,
   <<"Forwarding", "Listening">>, <<"Listening", "Closed">>}

\* a step of the worker's state machine that is one of its transitions, Listening to
\* Forwarding being a successful accept, and that does nothing once Closed
StateMachineStep ==
  /\ (WorkerState(wpc') # WorkerState(wpc)) =>
        <<WorkerState(wpc), WorkerState(wpc')>> \in Transitions
  /\ (WorkerState(wpc) = "Listening" /\ WorkerState(wpc') = "Forwarding") =>
        (wpc = "accept" /\ backlog # <<>> /\ nLocal' = nLocal + 1)
  /\ (WorkerState(wpc) = "Closed") =>
        (WorkerState(wpc') = "Closed" /\ nLocal' = nLocal /\ nChan' = nChan
         /\ chan_call' = chan_call)

\* C23: the worker follows Listening -> (Forwarding)* -> Closed: it never leaves
\* Forwarding directly to a terminated state, and Closed is absorbing.
C23_WorkerStateMachine == [][StateMachineStep]_vars

\* the same, the unwinding of a panicked worker left aside
C23_StateMachineUnlessPanic == [][(wpc' # "panicked") => StateMachineStep]_vars

\* the step that ends an episode whose channel was opened: the channel goes away
ChannelGoes == nChan' < nChan

\* the close handshake has run when the channel goes away: the session was set
\* blocking and send_eof called (l.208-209), wait_close is returning (l.210), and the
\* worker goes on to its poll
AfterCloseHandshake == wpc = "wait_close" /\ blocking /\ wpc' = "poll"

\* C24: every episode in which a channel was opened ends with the close handshake on
\* that channel, on every way the episode can end.
C24_EpisodeEndsWithCloseHandshake == [][ChannelGoes => AfterCloseHandshake]_vars

\* the same for the episodes that end by leaving the copy loop
C24_HandshakeUnlessPanic ==
  [][(ChannelGoes /\ wpc' # "panicked") => AfterCloseHandshake]_vars

\* C25: a chunk read from the channel is written completely to the local socket
\* before the next read and before the episode can end, unless the local socket is
\* closed or fails hard: while the client's end is open, a write to the local socket
\* neither leaves the copy loop nor drops a byte of the chunk.
C25_ChunkWrittenCompletely ==
  [][(wpc = "local_write" /\ cli = "open") =>
        /\ wpc' \in {"local_write", "eof_check"}
        /\ local_written' \o channel_buf' = local_written \o channel_buf]_vars

\* C26: the relay adds, alters, duplicates and reorders nothing: at every state of an
\* episode what has been written to the channel is a prefix of what the client has
\* sent, what has been written to the local socket is a prefix of what was read from
\* the channel, and a chunk is at most the buffer's size (8192 bytes in the program).
C26_RelayWritesPrefixes ==
  /\ IsPrefix(chan_written, Take(Msg, cliSent))
  /\ IsPrefix(local_written, chan_read)
  /\ Len(local_buf) <= BufSize
  /\ Len(channel_buf) <= BufSize
  /\ IsPrefix(chan_written \o local_buf, Take(Msg, cliSent))
  /\ IsPrefix(local_written \o channel_buf, chan_read)

\* both directions have carried more than one chunk
C26_Witness ==
  /\ wpc \in CopyLoopPcs
  /\ Len(chan_written) > BufSize
  /\ Len(local_written) > BufSize

\* the copy loop of l.163-205 is left in this step
LoopEnds == wpc \in CopyLoopPcs /\ wpc' \notin CopyLoopPcs

\* the event that ends the copy loop with the given cause
CauseHolds(cause) ==
  CASE cause = "local_eof" -> wpc = "local_read" /\ l2w = <<>> /\ cli = "closed"
    [] cause = "local_err" -> wpc = "local_read" /\ cli = "closed"
    [] cause = "chan_write_err" -> wpc = "chan_write" /\ tcp # "open"
    [] cause = "chan_closed" -> wpc = "chan_read" /\ r2c = <<>> /\ remote = "eof"
    [] cause = "chan_err" -> wpc = "chan_read" /\ tcp # "open"
    [] cause = "local_write_wouldblock" ->
         wpc = "local_write" /\ Len(channel_buf) > LocalCap - Len(w2l)
    [] cause = "local_write_err" -> wpc = "local_write" /\ cli = "closed"
    [] cause = "chan_eof" -> wpc = "eof_check" /\ remote = "eof" /\ r2c = <<>>
    [] OTHER -> FALSE

\* C27: the copy loop ends exactly on a zero-length read or hard error of the local
\* socket, a zero-length read or hard error of the channel, a failed write in either
\* direction, or channel EOF at the end of a pass; a would-block read never ends it;
\* a zero-length local read ends it in the same pass, with no further channel read.
C27_CopyLoopEndsOnListedCauses ==
  [][/\ LoopEnds => (wpc' = "send_eof" /\ CauseHolds(endCause'))
     /\ (wpc = "local_read" /\ l2w = <<>> /\ cli = "closed" /\ wpc' # wpc) =>
           (wpc' = "send_eof" /\ chan_call' = chan_call)
     /\ (wpc = "chan_write" /\ tcp # "open" /\ wpc' # wpc) => wpc' = "send_eof"
     /\ (wpc = "chan_read" /\ (tcp # "open" \/ (r2c = <<>> /\ remote = "eof"))
           /\ wpc' # wpc) => wpc' = "send_eof"
     /\ (wpc = "eof_check" /\ remote = "eof" /\ r2c = <<>> /\ wpc' # wpc) =>
           wpc' = "send_eof"
     /\ (wpc = "local_read" /\ l2w = <<>> /\ cli = "open" /\ wpc' # wpc) =>
           wpc' = "chan_read"
     /\ (wpc = "chan_read" /\ tcp = "open" /\ r2c = <<>> /\ remote = "open"
           /\ wpc' # wpc) => wpc' = "eof_check"]_vars

\* an episode that carried data both ways has ended on a zero-length local read
C27_Witness ==
  /\ wpc = "send_eof"
  /\ endCause = "local_eof"
  /\ local_written # <<>>
  /\ chan_call = <<"read", FALSE>>

\* C28: blocking-mode discipline: every channel open and every write to the channel
\* is made with the session blocking, every read from the channel in the copy loop
\* with the session non-blocking, and in Listening the session is non-blocking, also
\* after an episode that ended by error or by a failed channel open.
C28_BlockingModeDiscipline ==
  /\ (chan_call # <<>> /\ chan_call[1] \in {"open", "write"}) => chan_call[2]
  /\ (chan_call # <<>> /\ chan_call[1] = "read") => ~chan_call[2]
  /\ wpc \in ListeningPcs => ~blocking

\* back in Listening after an episode whose write to the channel failed (the loop was
\* left with the session blocking)
C28_Witness ==
  /\ wpc = "poll"
  /\ endCause = "chan_write_err"
  /\ nLocal = 0
  /\ ~blocking

\* C29: every accept attempt follows at once a shutdown poll of the same iteration
\* that found no signal; a poll that finds the signal makes the worker exit without
\* an accept, even with a local connection pending.
C29_AcceptOnlyAfterEmptyPoll ==
  [][/\ (wpc' = "accept" /\ wpc # "accept") => (wpc = "poll" /\ sig = 0)
     /\ (wpc = "accept" /\ wpc' # wpc) => wpc' \in {"chan_open", "poll", "closed"}
     /\ (wpc = "poll" /\ sig > 0 /\ wpc' # wpc) =>
           (wpc' = "closed" /\ backlog' = backlog /\ nLocal' = nLocal)
     /\ (wpc = "closed") => (wpc' \in {"closed", "done"} /\ nLocal' = nLocal)]_vars

\* the poll has found the signal while a local connection was pending, and the worker
\* is leaving its loop with that connection not accepted
C29_Witness ==
  /\ wpc = "closed"
  /\ spc = "sent"
  /\ sig = 0
  /\ backlog # <<>>

C31_HardAcceptErrorClosesWorker ==
  /\ [][(wpc = "accept" /\ wpc' = "closed") =>
           (endCause' = "accept_err" /\ sig' = sig)]_vars
  /\ [][(wpc = "accept" /\ wpc' # wpc /\ endCause' # "accept_err") =>
           wpc' \in {"poll", "chan_open"}]_vars
  /\ (wpc = "closed" /\ endCause = "accept_err") ~>
        (wpc = "done" /\ listener = "released")
  /\ (spc = "sent" /\ endCause = "accept_err" /\ wpc \in {"closed", "done"}) ~>
        (spc = "returned")

\* shutdown was called after the worker had ended on an accept error (the send found
\* no receiver) and has returned
C31_Witness ==
  /\ spc = "returned"
  /\ endCause = "accept_err"
  /\ sig = 0
  /\ listener = "released"

\* C32: test_connection leaves no tunnel behind and does not touch the registry: a
\* tunnel established for no connection id lives only while test_connection runs and
\* is its temporary tunnel, which is in neither map; a tunnel whose shutdown has
\* returned has its worker ended and its listener released.
C32_TestConnectionLeavesNothing ==
  /\ \A t \in Tunnels :
       /\ (t_owner[t] = 0 /\ t_state[t] \notin {"unused", "joined"}) =>
             (tpc # "idle" /\ tt = t)
       /\ (t_state[t] = "joined") => (t_wpc[t] \in TerminatedPcs /\ ~t_bound[t])
  /\ (tt # 0) =>
       \A id \in Ids : ssh_tunnels[id] # tt /\ connections[id] # <<tt>>
  /\ (tpc = "idle") => tt = 0

\* test_connection has returned after shutting its tunnel down, no manager operation
\* having run
C32_Witness ==
  /\ tpc = "idle"
  /\ mpc = "idle"
  /\ mret = "none"
  /\ \E t \in Tunnels : t_state[t] = "joined" /\ sends[t] = 1 /\ joins[t] = 1

\* C33: step 1 of establish resolves the jump host: for a jump host given as a
\* resolvable host name establish goes on to the transport connection and does not
\* fail on the address.
C33_HostNameIsResolved ==
  (config.ssh_host = "name") => ~(epc = "err" /\ result = "addr")

\* C34: every tunnel worker that is still running belongs to a tunnel held in the
\* registry, or to the tunnel a call in progress is establishing or shutting down: no
\* worker survives without an entry through which it can be shut down.
C34_NoOrphanWorker ==
  \A t \in Tunnels :
    Running(t) =>
      \/ \E id \in Ids : ssh_tunnels[id] = t
      \/ mpc # "idle" /\ mt = t
      \/ tpc # "idle" /\ tt = t

\* C35: after the shutdown signal has been sent the worker starts no new episode: no
\* local connection is accepted after the send.
C35_NoAcceptAfterSend == [][(spc # "idle") => nLocal' <= nLocal]_vars

\* C35, as the code has it: after the send a connection is accepted only by the
\* accept whose poll came before the send (the signal is still unread); every poll
\* after the send finds the signal and closes the worker, and nothing is accepted
\* during or after the episode of that one connection.
C35_OnlyTheAcceptAlreadyUnderWay ==
  /\ [][(spc # "idle" /\ nLocal' > nLocal) => (wpc = "accept" /\ sig > 0)]_vars
  /\ [][(sig > 0 /\ wpc = "poll" /\ wpc' # wpc) => wpc' = "closed"]_vars
  /\ [][(sig > 0 /\ wpc \in ForwardingPcs \cup {"poll"}) =>
           (nLocal' <= nLocal /\ wpc' # "accept")]_vars

\* the signal was sent between the poll and the accept, and a connection is waiting
C35_Witness ==
  /\ spc = "sent"
  /\ sig = 1
  /\ wpc = "accept"
  /\ backlog # <<>>
  /\ nLocal = 0

\* C36: every registry entry refers to a live tunnel: whenever get_tunnel_port(id)
\* returns Some(p), the worker of the tunnel registered for id is running and its
\* listener is bound on port p.
C36_EntryRefersToLiveTunnel ==
  \A id \in Ids :
    get_tunnel_port(id) # 0 =>
      /\ Running(ssh_tunnels[id])
      /\ t_bound[ssh_tunnels[id]]
      /\ local_port[ssh_tunnels[id]] = get_tunnel_port(id)

\* C36, as the code has it: a registry entry is a tunnel that establish returned and
\* nobody has shut down; get_tunnel_port gives the port its listener was bound to;
\* the listener is bound exactly as long as the worker has not ended, and a worker
\* that has ended leaves the entry in place.
C36_EntryLiveUntilWorkerEnds ==
  \A id \in Ids :
    LET t == ssh_tunnels[id]
    IN t # 0 =>
         /\ t_state[t] = "held"
         /\ t_owner[t] = id
         /\ get_tunnel_port(id) = local_port[t]
         /\ local_port[t] \in Ports
         /\ t_wpc[t] # "unspawned"
         /\ t_bound[t] <=> (t_wpc[t] \notin TerminatedPcs)

\* an entry is registered, no call is in progress, and its worker has ended
C36_Witness ==
  /\ mpc = "idle"
  /\ \E id \in Ids :
       /\ get_tunnel_port(id) # 0
       /\ t_wpc[ssh_tunnels[id]] = "done"
       /\ connections[id] = <<ssh_tunnels[id]>>

\* the client stored for id was connected through tunnel t (0: directly; <<>>: no
\* client stored)
ClientThrough(id) == connections[id]

\* C37: get_tunnel_port agrees with the current client: when no call is in progress,
\* get_tunnel_port(id) is Some(p) if and only if the client stored for id was
\* connected through a tunnel, and p is the port of the tunnel it is connected through.
C37_PortAgreesWithClient ==
  (mpc = "idle") =>
     \A id \in Ids :
       /\ (get_tunnel_port(id) # 0) <=>
             (ClientThrough(id) # <<>> /\ ClientThrough(id) # <<0>>)
       /\ (get_tunnel_port(id) # 0) => ClientThrough(id) = <<ssh_tunnels[id]>>

\* C38: whenever no manager operation is in progress, each connection id that has a
\* registered tunnel also has a registered client.
C38_TunnelKeysWithinClientKeys ==
  (mpc = "idle") =>
     \A id \in Ids : ssh_tunnels[id] # 0 => connections[id] # <<>>

\* a connect through a tunnel has failed for an id that was connected before: its
\* tunnel entry is gone, the earlier client is still stored
C38_Witness ==
  /\ Returned("connect_err_pg")
  /\ mssh
  /\ ssh_tunnels[mid] = 0
  /\ connections[mid] # <<>>

\* disconnect holds the lock and is waiting in tunnel.shutdown()
DisconnectWaits == mpc \in {"d_send", "d_join"}

====
